---- MODULE Spec2Model ----
(***************************************************************************)
(* A model of the PokeFusion REST API's fusion engine                      *)
(* (src/src/services/fusion.service.js, the revision of lines 129-840) and *)
(* of the stores it reads (PokemonService, src/unnamed/part_007).          *)
(*                                                                         *)
(* Strings are sequences of atoms.  An atom is one character, or an opaque *)
(* run of characters that no pattern of the program matches into.  Type    *)
(* tags are only compared and tested for truthiness, so they stay TLA+     *)
(* strings.                                                                *)
(***************************************************************************)
EXTENDS Integers, Sequences, FiniteSets, TLC

VARIABLES
    isInitialized,          \* PokemonService.isInitialized
    pokemonData,            \* PokemonService.pokemonData: lower-cased name -> record
    pokemonById,            \* PokemonService.pokemonById: id -> record
    pokemonNames,           \* PokemonService.pokemonNames: sorted list of full names
    isPokedexLoaded,        \* FusionService.isPokedexLoaded
    customPokedexEntries,   \* FusionService.customPokedexEntries: fusionId -> entries
    imageIsInitialized,     \* ImageService.isInitialized
    customSprites,          \* ImageService.customSprites: set of "headId.bodyId" keys
    autogenSprites,         \* ImageService.autogenSprites: headId -> set of bodyIds
    requestCounts,          \* index.js requestCounts: ip -> {count, resetTime}
    now,                    \* Date.now(), in milliseconds
    pendingLoads,           \* PokemonService.initialize calls awaiting the file read
    call,                   \* the operation last invoked, with its arguments
    ret                     \* what that operation returned (or the error it threw)

vars == <<isInitialized, pokemonData, pokemonById, pokemonNames,
          isPokedexLoaded, customPokedexEntries,
          imageIsInitialized, customSprites, autogenSprites,
          requestCounts, now, pendingLoads, call, ret>>

(***************************************************************************)
(* Bounds of the model.                                                    *)
(***************************************************************************)
MaxStat == 5

(***************************************************************************)
(* JavaScript values.                                                      *)
(***************************************************************************)
\* the value of a missing array element or object field, as a type tag
undefined == "undefined"

\* JavaScript's null, as a record without any field of a creature record
null == [isNull |-> TRUE]

IsNull(r) == "isNull" \in DOMAIN r

\* x || 0 on a stat field: a missing field, or 0, gives 0
OrZero(r, f) == IF f \in DOMAIN r THEN r[f] ELSE 0

\* truthiness of a type tag: undefined and the empty string are falsy
Truthy(t) == t # undefined /\ t # ""

\* a[i] of a JavaScript array held as a sequence (i counted from 0)
At(a, i) == IF i + 1 \in DOMAIN a THEN a[i + 1] ELSE undefined

\* record.types || []
TypesOf(r) == IF "types" \in DOMAIN r THEN r.types ELSE << >>

(***************************************************************************)
(* Stat synthesis.                                                         *)
(***************************************************************************)
\* a variant that divides the weighted sum once
calculateFusedStats_OneFloor(dominantStat, otherStat) ==
    (2 * dominantStat + otherStat) \div 3

\* Math.floor((2 * dominantStat) / 3) + Math.floor(otherStat / 3)
calculateFusedStats(dominantStat, otherStat) ==
    ((2 * dominantStat) \div 3) + (otherStat \div 3)

\* the six stats read from a record, each `|| 0`
StatsOf(p) ==
    [HP              |-> OrZero(p, "hp"),
     SPECIAL_DEFENSE |-> OrZero(p, "specialDefense"),
     SPECIAL_ATTACK  |-> OrZero(p, "specialAttack"),
     ATTACK          |-> OrZero(p, "attack"),
     DEFENSE         |-> OrZero(p, "defense"),
     SPEED           |-> OrZero(p, "speed")]

\* Object.values(o).reduce((sum, stat) => sum + stat, 0)
RECURSIVE SumOver(_, _)
SumOver(o, keys) ==
    IF keys = {} THEN 0
    ELSE LET k == CHOOSE x \in keys : TRUE
         IN  o[k] + SumOver(o, keys \ {k})

SumValues(o) == SumOver(o, DOMAIN o)

\* a variant that adds the two parents' values
FusedSix_Adds(headStats, bodyStats) ==
    [k \in DOMAIN headStats |-> headStats[k] + bodyStats[k]]

\* the object fusedStats as it is when TOTAL is computed: the head-dominant
\* stats take the head's value as dominant, the body-dominant ones the body's
FusedSix(headStats, bodyStats) ==
    [HP              |-> calculateFusedStats(headStats.HP, bodyStats.HP),
     SPECIAL_DEFENSE |-> calculateFusedStats(headStats.SPECIAL_DEFENSE,
                                             bodyStats.SPECIAL_DEFENSE),
     SPECIAL_ATTACK  |-> calculateFusedStats(headStats.SPECIAL_ATTACK,
                                             bodyStats.SPECIAL_ATTACK),
     ATTACK          |-> calculateFusedStats(bodyStats.ATTACK, headStats.ATTACK),
     DEFENSE         |-> calculateFusedStats(bodyStats.DEFENSE, headStats.DEFENSE),
     SPEED           |-> calculateFusedStats(bodyStats.SPEED, headStats.SPEED)]

\* a variant that sets TOTAL before the last stat is in the object
WithTotal_Early(fusedStats) ==
    [k \in DOMAIN fusedStats \cup {"TOTAL"} |->
        IF k = "TOTAL" THEN SumOver(fusedStats, DOMAIN fusedStats \ {"SPEED"})
        ELSE fusedStats[k]]

\* fusedStats.TOTAL = Object.values(fusedStats).reduce(...), then return
WithTotal(fusedStats) ==
    [k \in DOMAIN fusedStats \cup {"TOTAL"} |->
        IF k = "TOTAL" THEN SumValues(fusedStats) ELSE fusedStats[k]]

calculateBaseStats(headPokemon, bodyPokemon) ==
    WithTotal(FusedSix(StatsOf(headPokemon), StatsOf(bodyPokemon)))

(***************************************************************************)
(* Type synthesis.                                                         *)
(***************************************************************************)
\* a variant without the promotion of the secondary type
calculateType1_NoPromotion(headPokemon) == At(TypesOf(headPokemon), 0)

calculateType1(headPokemon) ==
    LET headTypes == TypesOf(headPokemon)
    IN  IF At(headTypes, 0) = "NORMAL" /\ At(headTypes, 1) = "FLYING"
        THEN At(headTypes, 1)
        ELSE At(headTypes, 0)

\* a variant that tests the body's first type instead of its second
calculateType2_TestsFirst(bodyPokemon, type1) ==
    LET bodyTypes == TypesOf(bodyPokemon)
    IN  IF At(bodyTypes, 0) = type1
        THEN At(bodyTypes, 1)
        ELSE At(bodyTypes, 0)

calculateType2(bodyPokemon, type1) ==
    LET bodyTypes == TypesOf(bodyPokemon)
    IN  IF At(bodyTypes, 1) = type1
        THEN At(bodyTypes, 0)
        ELSE At(bodyTypes, 1)

\* a variant that keeps the absent types
FilterTruthy_KeepsAll(a) == a

\* [...].filter(type => type && type !== undefined)
FilterTruthy(a) == SelectSeq(a, Truthy)

\* [...new Set(a)]: first occurrences, in order
RECURSIVE Dedupe(_)
Dedupe(a) ==
    IF a = << >> THEN << >>
    ELSE LET init == Dedupe(SubSeq(a, 1, Len(a) - 1))
             last == a[Len(a)]
         IN  IF \E i \in DOMAIN init : init[i] = last
             THEN init
             ELSE Append(init, last)

calculateTypes(headPokemon, bodyPokemon) ==
    LET type1 == calculateType1(headPokemon)
        type2 == calculateType2(bodyPokemon, type1)
    IN  Dedupe(FilterTruthy(<<type1, type2>>))

(***************************************************************************)
(* Strings.                                                                *)
(***************************************************************************)
\* s.length > 0 ? s[s.length - 1] : undefined
LastOf(s) == s[Len(s)]

\* s.slice(0, -1)
DropLast(s) == SubSeq(s, 1, Len(s) - 1)

\* the upper-case atoms of the model and their lower-case forms
UpperToLower ==
    [A |-> "a", B |-> "b", C |-> "c", D |-> "d", E |-> "e", F |-> "f",
     G |-> "g", H |-> "h", I |-> "i", J |-> "j", K |-> "k", L |-> "l",
     M |-> "m", N |-> "n", O |-> "o", P |-> "p", Q |-> "q", R |-> "r",
     S |-> "s", T |-> "t", U |-> "u", V |-> "v", W |-> "w", X |-> "x",
     Y |-> "y", Z |-> "z"]

LowerAtom(c) == IF c \in DOMAIN UpperToLower THEN UpperToLower[c] ELSE c

\* s.toLowerCase()
toLowerCase(s) == [i \in DOMAIN s |-> LowerAtom(s[i])]

\* `${x}` of a string field that may be missing
Stringify(r, f) == IF f \in DOMAIN r THEN r[f] ELSE <<"undefined">>

\* a value returned, and an exception thrown
Return(v) == [threw |-> FALSE, value |-> v]

Throw(e) == [threw |-> TRUE, error |-> e]

(***************************************************************************)
(* GameData: the split-name table and the id remapping.                    *)
(***************************************************************************)
\* the number of entries of SPLIT_NAMES (entry 0 is a placeholder)
SplitLen == 5

\* SPLIT_NAMES: index = id; a sample whose entries 0, 1 and 4 are those of
\* the table's first lines
SPLIT_NAMES ==
    [i \in 0 .. (SplitLen - 1) |->
        CASE i = 0 -> << << >>, << >> >>
          [] i = 1 -> << <<"B", "u", "l", "b", "a">>, <<"s", "a", "u", "r">> >>
          [] i = 2 -> << <<"P", "i", "d">>, <<"g", "e", "y">> >>
          [] i = 3 -> << <<"A", "b">>, <<"r", "a">> >>
          [] i = 4 -> << <<"C", "h", "a", "r">>, <<"m", "a", "n", "d", "e", "r">> >>
          [] OTHER -> << <<"M", "i", "s", "s">>, <<"i", "n", "g">> >>]

\* NAT_DEX_MAPPING: a sparse remapping of ids
NAT_DEX_MAPPING == (6 :> 3)

\* GameData.NAT_DEX_MAPPING[index] || index
NatDex(index) ==
    IF index \in DOMAIN NAT_DEX_MAPPING /\ NAT_DEX_MAPPING[index] # 0
    THEN NAT_DEX_MAPPING[index]
    ELSE index

\* whether GameData.SPLIT_NAMES[natDex] is defined
HasSplit(natDex) == natDex \in DOMAIN SPLIT_NAMES

(***************************************************************************)
(* Name synthesis.                                                         *)
(***************************************************************************)
\* a variant that compares the two characters without regard to case
Elide_IgnoresCase(prefix, suffix) ==
    IF Len(prefix) > 0 /\ Len(suffix) > 0
       /\ toLowerCase(<<LastOf(prefix)>>) = toLowerCase(<<suffix[1]>>)
    THEN DropLast(prefix) \o suffix
    ELSE prefix \o suffix

\* the overlap handling and the concatenation: a prefix that ends with the
\* character the suffix starts with loses it
Elide(prefix, suffix) ==
    IF Len(prefix) > 0 /\ Len(suffix) > 0 /\ LastOf(prefix) = suffix[1]
    THEN DropLast(prefix) \o suffix
    ELSE prefix \o suffix

\* the statements of calculateName's try block; "TypeError" where one of
\* them throws: a property read of null, or .length of undefined
NameTry(headIndex, bodyIndex, headData, bodyData) ==
    LET bodyNatDex == NatDex(bodyIndex)
        headNatDex == NatDex(headIndex)
    IN  IF ~HasSplit(headNatDex) /\ IsNull(headData) THEN Throw("TypeError")
        ELSE IF ~HasSplit(bodyNatDex) /\ IsNull(bodyData) THEN Throw("TypeError")
        ELSE
        LET headPrefix == IF HasSplit(headNatDex) THEN SPLIT_NAMES[headNatDex][1]
                          ELSE IF "fullName" \in DOMAIN headData
                               THEN headData.fullName ELSE << >>
            bodySplits == IF HasSplit(bodyNatDex) THEN SPLIT_NAMES[bodyNatDex]
                          ELSE << << >>,
                                  IF "fullName" \in DOMAIN bodyData
                                  THEN bodyData.fullName ELSE << >> >>
            \* whether `a || b || record.fullName` reaches record.fullName
            headNeedsFull == headPrefix = << >>
            bodyNeedsFull == bodySplits[2] = << >> /\ bodySplits[1] = << >>
        IN  IF headNeedsFull /\ IsNull(headData) THEN Throw("TypeError")
            ELSE IF headNeedsFull /\ "fullName" \notin DOMAIN headData
                 THEN Throw("TypeError")      \* prefix.length of undefined
            ELSE IF bodyNeedsFull /\ IsNull(bodyData) THEN Throw("TypeError")
            ELSE IF bodyNeedsFull /\ "fullName" \notin DOMAIN bodyData
                 THEN IF Len(IF headNeedsFull THEN headData.fullName ELSE headPrefix) > 0
                      THEN Throw("TypeError") \* suffix.length of undefined
                      ELSE Return(<<"undefined">>)
            ELSE
            LET prefix == IF headNeedsFull THEN headData.fullName ELSE headPrefix
                suffix == IF bodySplits[2] # << >> THEN bodySplits[2]
                          ELSE IF bodySplits[1] # << >> THEN bodySplits[1]
                          ELSE bodyData.fullName
            IN  Return(Elide(prefix, suffix))

\* the catch block: `${headData.fullName}${bodyData.fullName}`
NameCatch(headData, bodyData) ==
    IF IsNull(headData) \/ IsNull(bodyData) THEN Throw("TypeError")
    ELSE Return(Stringify(headData, "fullName") \o Stringify(bodyData, "fullName"))

calculateName(headIndex, bodyIndex, headData, bodyData) ==
    LET tried == NameTry(headIndex, bodyIndex, headData, bodyData)
    IN  IF tried.threw THEN NameCatch(headData, bodyData) ELSE tried

(***************************************************************************)
(* Text helpers of the category, Pokedex-entry and height/weight synthesis.*)
(***************************************************************************)
\* the atoms \s matches
IsSpace(c) == c \in {" ", "\n"}

\* s.trim()
RECURSIVE TrimLeft(_)
TrimLeft(s) ==
    IF s # << >> /\ IsSpace(s[1]) THEN TrimLeft(Tail(s)) ELSE s

RECURSIVE TrimRight(_)
TrimRight(s) ==
    IF s # << >> /\ IsSpace(LastOf(s)) THEN TrimRight(DropLast(s)) ELSE s

Trim(s) == TrimLeft(TrimRight(s))

\* s.replace(/\s{2,}/g, ' ')
RECURSIVE CollapseSpaces(_)
CollapseSpaces(s) ==
    IF s = << >> THEN << >>
    ELSE IF Len(s) >= 2 /\ IsSpace(s[1]) /\ IsSpace(s[2])
         THEN <<" ">> \o CollapseSpaces(TrimLeft(s))
         ELSE <<s[1]>> \o CollapseSpaces(Tail(s))

\* s.replace(new RegExp(pattern, 'g'), replacement) for a pattern without
\* regular-expression metacharacters
RECURSIVE ReplaceAll(_, _, _)
ReplaceAll(s, pattern, replacement) ==
    IF pattern = << >>
    THEN IF s = << >> THEN replacement
         ELSE replacement \o <<s[1]>> \o ReplaceAll(Tail(s), pattern, replacement)
    ELSE IF Len(s) < Len(pattern) THEN s
    ELSE IF SubSeq(s, 1, Len(pattern)) = pattern
         THEN replacement
              \o ReplaceAll(SubSeq(s, Len(pattern) + 1, Len(s)), pattern, replacement)
         ELSE <<s[1]>> \o ReplaceAll(Tail(s), pattern, replacement)

\* s.indexOf(c) + 1, or 0
RECURSIVE IndexOf(_, _)
IndexOf(s, c) ==
    IF s = << >> THEN 0
    ELSE IF s[1] = c THEN 1
    ELSE LET r == IndexOf(Tail(s), c) IN IF r = 0 THEN 0 ELSE r + 1

\* s.split(separator, 2)
Split2(s, separator) ==
    LET i == IndexOf(s, separator)
    IN  IF i = 0 THEN <<s>>
        ELSE LET rest == SubSeq(s, i + 1, Len(s))
                 j    == IndexOf(rest, separator)
             IN  <<SubSeq(s, 1, i - 1),
                   IF j = 0 THEN rest ELSE SubSeq(rest, 1, j - 1)>>

splitAndCombineText(beginningTextFull, endTextFull, separator) ==
    LET beginningTextSplit == Split2(beginningTextFull, separator)
        endTextSplit       == Split2(endTextFull, separator)
        beginningText      == beginningTextSplit[1]
        endText            == IF Len(endTextSplit) >= 2 /\ endTextSplit[2] # << >>
                              THEN endTextSplit[2]
                              ELSE endTextSplit[1]
    IN  Trim(CollapseSpaces(beginningText \o <<separator>> \o <<" ">> \o endText))

\* the word the category pattern matches, whatever its case
IsPokemonWord(c) == c \in {"Pokémon", "pokémon", "POKÉMON"}

\* category.replace(/\s*Pokémon\s*$/i, '').trim()
StripPokemon(category) ==
    LET t == TrimRight(category)
    IN  IF t # << >> /\ IsPokemonWord(LastOf(t))
        THEN Trim(DropLast(t))
        ELSE Trim(category)

splitAndCombineCategory(headCategory, bodyCategory) ==
    LET headTrimmed == StripPokemon(headCategory)
        bodyTrimmed == StripPokemon(bodyCategory)
        combined    == IF headTrimmed # << >> /\ bodyTrimmed # << >>
                       THEN headTrimmed \o <<" ">> \o bodyTrimmed
                       ELSE IF headTrimmed # << >> THEN headTrimmed
                       ELSE bodyTrimmed
    IN  combined \o <<" ", "Pokémon">>

\* record.field || ''
OrEmpty(r, f) == IF f \in DOMAIN r THEN r[f] ELSE << >>

calculateCategory(bodyPokemon, headPokemon) ==
    LET bodyCategory == OrEmpty(bodyPokemon, "category")
        headCategory == OrEmpty(headPokemon, "category")
    IN  splitAndCombineCategory(bodyCategory, headCategory)

(***************************************************************************)
(* Height and weight synthesis.  A parsed magnitude is a fraction num/den  *)
(* with den a power of ten, which is what parseFloat reads from a decimal. *)
(***************************************************************************)
Digits == <<"0", "1", "2", "3", "4", "5", "6", "7", "8", "9">>

IsDigit(c) == \E d \in DOMAIN Digits : Digits[d] = c

DigitValue(c) == (CHOOSE d \in DOMAIN Digits : Digits[d] = c) - 1

\* the longest run of digits s starts with
RECURSIVE TakeDigits(_)
TakeDigits(s) ==
    IF s # << >> /\ IsDigit(s[1]) THEN <<s[1]>> \o TakeDigits(Tail(s)) ELSE << >>

\* s from its first digit on (empty when it has none)
RECURSIVE FromFirstDigit(_)
FromFirstDigit(s) ==
    IF s = << >> \/ IsDigit(s[1]) THEN s ELSE FromFirstDigit(Tail(s))

\* the number a run of digits writes
RECURSIVE DigitsToNat(_)
DigitsToNat(ds) ==
    IF ds = << >> THEN 0 ELSE 10 * DigitsToNat(DropLast(ds)) + DigitValue(LastOf(ds))

RECURSIVE PowerOfTen(_)
PowerOfTen(n) == IF n = 0 THEN 1 ELSE 10 * PowerOfTen(n - 1)

\* `${n}` of a non-negative integer
RECURSIVE NatToDigits(_)
NatToDigits(n) ==
    IF n < 10 THEN <<Digits[n + 1]>>
    ELSE NatToDigits(n \div 10) \o <<Digits[(n % 10) + 1]>>

\* valueString.match(/(\d+\.?\d*)/), then parseFloat
extractNumericValue(r, f) ==
    IF f \notin DOMAIN r \/ r[f] = << >> THEN [num |-> 0, den |-> 1]
    ELSE LET from     == FromFirstDigit(r[f])
             whole    == TakeDigits(from)
             rest     == SubSeq(from, Len(whole) + 1, Len(from))
             fraction == IF rest # << >> /\ rest[1] = "."
                         THEN TakeDigits(Tail(rest)) ELSE << >>
         IN  IF from = << >> THEN [num |-> 0, den |-> 1]
             ELSE [num |-> DigitsToNat(whole \o fraction),
                   den |-> PowerOfTen(Len(fraction))]

\* a variant that rounds the mean up
averageValues_RoundsUp(value1, value2) ==
    (value1.num * value2.den + value2.num * value1.den
        + 2 * value1.den * value2.den - 1)
        \div (2 * value1.den * value2.den)

\* Math.floor((value1 + value2) / 2)
averageValues(value1, value2) ==
    (value1.num * value2.den + value2.num * value1.den)
        \div (2 * value1.den * value2.den)

calculateHeight(headPokemon, bodyPokemon) ==
    LET headHeight == extractNumericValue(headPokemon, "height")
        bodyHeight == extractNumericValue(bodyPokemon, "height")
    IN  NatToDigits(averageValues(headHeight, bodyHeight)) \o <<" ", "c", "m">>

calculateWeight(headPokemon, bodyPokemon) ==
    LET headWeight == extractNumericValue(headPokemon, "weight")
        bodyWeight == extractNumericValue(bodyPokemon, "weight")
    IN  NatToDigits(averageValues(headWeight, bodyWeight)) \o <<" ", "k", "g">>

(***************************************************************************)
(* The roster source (fusiondex_data.json): a sample of six records.       *)
(* Records 1 and 4 are the ones the end-to-end scenario names.             *)
(***************************************************************************)
Bulbasaur == <<"B", "u", "l", "b", "a", "s", "a", "u", "r">>

Pidgey == <<"P", "i", "d", "g", "e", "y">>

Abra == <<"A", "b", "r", "a">>

Charmander == <<"C", "h", "a", "r", "m", "a", "n", "d", "e", "r">>

Alakazam == <<"A", "l", "a", "k", "a", "z", "a", "m">>

Mew == <<"M", "e", "w">>

BulbasaurData ==
    [id |-> 1, fullName |-> Bulbasaur,
     types |-> <<"GRASS", "POISON">>,
     hp |-> 45, attack |-> 49, defense |-> 49,
     specialAttack |-> 65, specialDefense |-> 65, speed |-> 45,
     pokedexEntry |-> Bulbasaur \o <<" ", "naps in bright sunlight", ".", " ", "A seed grows on its back", ".">>,
     category |-> <<"Seed", " ", "Pokémon">>,
     height |-> <<"7", "0", " ", "c", "m">>, weight |-> <<"6", ".", "9", " ", "k", "g">>]

PidgeyData ==
    [id |-> 2, fullName |-> Pidgey,
     types |-> <<"NORMAL", "FLYING">>,
     hp |-> 40, attack |-> 45, defense |-> 40,
     specialAttack |-> 35, specialDefense |-> 35, speed |-> 56,
     pokedexEntry |-> <<"It is docile", ".", " ">> \o Pidgey \o <<" ", "kicks up sand", ".">>,
     category |-> <<"Tiny Bird", " ", "Pokémon">>,
     height |-> <<"3", "0", " ", "c", "m">>, weight |-> <<"1", ".", "8", " ", "k", "g">>]

AbraData ==
    [id |-> 3, fullName |-> Abra,
     types |-> <<"PSYCHIC">>,
     hp |-> 25, attack |-> 20, defense |-> 15,
     specialAttack |-> 105, specialDefense |-> 55, speed |-> 90,
     pokedexEntry |-> Abra \o <<" ", "sleeps all day", ".">>,
     category |-> <<"Psi", " ", "Pokémon">>,
     height |-> <<"9", "0", " ", "c", "m">>, weight |-> <<"1", "9", ".", "5", " ", "k", "g">>]

CharmanderData ==
    [id |-> 4, fullName |-> Charmander,
     types |-> <<"FIRE">>,
     hp |-> 39, attack |-> 52, defense |-> 43,
     specialAttack |-> 60, specialDefense |-> 50, speed |-> 65,
     pokedexEntry |-> <<"The flame on its tail shows the strength of", " ">> \o Charmander \o <<".", " ", "It burns brightly", ".">>,
     category |-> <<"Lizard", " ", "Pokémon">>,
     height |-> <<"6", "1", " ", "c", "m">>, weight |-> <<"8", ".", "5", " ", "k", "g">>]

AlakazamData ==
    [id |-> 5, fullName |-> Alakazam,
     types |-> <<"PSYCHIC">>,
     hp |-> 55, attack |-> 50, defense |-> 45,
     specialAttack |-> 135, specialDefense |-> 95, speed |-> 120,
     pokedexEntry |-> <<"Its brain never stops growing", ",", " ", "so", " ">> \o Alakazam \o <<" ", "remembers everything">>,
     category |-> <<"Psi", " ", "Pokémon">>,
     height |-> <<"1", "5", "0", " ", "c", "m">>, weight |-> <<"4", "8", " ", "k", "g">>]

MewData ==
    [id |-> 6, fullName |-> Mew,
     types |-> <<"PSYCHIC">>,
     hp |-> 100, attack |-> 100, defense |-> 100,
     specialAttack |-> 100, specialDefense |-> 100, speed |-> 100,
     pokedexEntry |-> <<"Its DNA holds every code", ".", " ", "Few have seen", " ">> \o Mew \o <<".">>,
     category |-> <<"New Species", " ", "Pokémon">>,
     height |-> <<"4", "0", " ", "c", "m">>, weight |-> <<"4", " ", "k", "g">>]

\* Object.entries(fusionDexData): the keys and their records, in file order
FusionDexSource ==
    << [name |-> Bulbasaur,  data |-> BulbasaurData],
       [name |-> Pidgey,     data |-> PidgeyData],
       [name |-> Abra,       data |-> AbraData],
       [name |-> Charmander, data |-> CharmanderData],
       [name |-> Alakazam,   data |-> AlakazamData],
       [name |-> Mew,        data |-> MewData] >>

\* a source in which two entries carry the same id
FusionDexSourceB ==
    << [name |-> Abra,   data |-> AbraData],
       [name |-> Pidgey, data |-> PidgeyData],
       [name |-> Mew,    data |-> [MewData EXCEPT !.id = 3]] >>

\* the contents fusiondex_data.json may have
RosterSources == {FusionDexSource, FusionDexSourceB}

(***************************************************************************)
(* PokemonService.                                                         *)
(***************************************************************************)
\* the characters of names, in UTF-16 code unit order
CodeOrder ==
    <<" ", ".", "0", "1", "2", "3", "4", "5", "6", "7", "8", "9", "A", "B",
      "C", "D", "E", "F", "G", "H", "I", "J", "K", "L", "M", "N", "O", "P",
      "Q", "R", "S", "T", "U", "V", "W", "X", "Y", "Z", "a", "b", "c", "d",
      "e", "f", "g", "h", "i", "j", "k", "l", "m", "n", "o", "p", "q", "r",
      "s", "t", "u", "v", "w", "x", "y", "z">>

CodeOf(c) == CHOOSE i \in DOMAIN CodeOrder : CodeOrder[i] = c

\* a < b as Array.prototype.sort compares strings
RECURSIVE StrLess(_, _)
StrLess(a, b) ==
    IF b = << >> THEN FALSE
    ELSE IF a = << >> THEN TRUE
    ELSE IF a[1] = b[1] THEN StrLess(Tail(a), Tail(b))
    ELSE CodeOf(a[1]) < CodeOf(b[1])

\* the sorted list with one more name (stable: after its equals)
RECURSIVE InsertSorted(_, _)
InsertSorted(sorted, name) ==
    IF sorted = << >> THEN <<name>>
    ELSE IF StrLess(name, sorted[1]) THEN <<name>> \o sorted
    ELSE <<sorted[1]>> \o InsertSorted(Tail(sorted), name)

\* names.sort()
RECURSIVE SortNames(_)
SortNames(names) ==
    IF names = << >> THEN << >>
    ELSE InsertSorted(SortNames(DropLast(names)), LastOf(names))

\* map.set(key, value)
MapSet(map, key, value) ==
    [k \in DOMAIN map \cup {key} |-> IF k = key THEN value ELSE map[k]]

\* a Map without entries
EmptyMap == << >>

\* the loop of initialize over the first n entries of the source
RECURSIVE LoadedData(_, _)
LoadedData(source, n) ==
    IF n = 0 THEN EmptyMap
    ELSE MapSet(LoadedData(source, n - 1),
                toLowerCase(source[n].name), source[n].data)

RECURSIVE LoadedById(_, _)
LoadedById(source, n) ==
    IF n = 0 THEN EmptyMap
    ELSE MapSet(LoadedById(source, n - 1), source[n].data.id, source[n].data)

LoadedNames(source) == [i \in DOMAIN source |-> source[i].data.fullName]

isValidPokemon(name) ==
    IF name = << >> THEN FALSE
    ELSE IF ~isInitialized THEN FALSE
    ELSE toLowerCase(name) \in DOMAIN pokemonData

\* the names getRandomPokemonName may return; null is the empty name
getRandomPokemonName ==
    IF ~isInitialized \/ Len(pokemonNames) = 0 THEN { << >> }
    ELSE {pokemonNames[i] : i \in DOMAIN pokemonNames}

\* null is the empty name
normalizePokemonName(name) ==
    IF name = << >> THEN << >>
    ELSE IF ~isInitialized THEN << >>
    ELSE IF toLowerCase(name) \in DOMAIN pokemonData
         THEN pokemonData[toLowerCase(name)].fullName
         ELSE << >>

getPokemonIndex(name) ==
    IF name = << >> THEN 0
    ELSE IF ~isInitialized THEN 0
    ELSE IF toLowerCase(name) \in DOMAIN pokemonData
         THEN pokemonData[toLowerCase(name)].id
         ELSE 0

getPokemonById(id) ==
    IF id = 0 \/ ~isInitialized THEN null
    ELSE IF id \in DOMAIN pokemonById THEN pokemonById[id] ELSE null

(***************************************************************************)
(* The custom Pokedex entries (dex.json) and FusionService.initialize.     *)
(***************************************************************************)
\* a sample source: two entries and a variant for the pair 1.4, one entry
\* for 4.1, and an entry without text
DexSourceA ==
    << [sprite |-> <<"1", ".", "4", ".png">>,
        entry  |-> <<"POKENAME", " ", "basks by the fire", ".", " ",
                     "POKENAME", " ", "glows">>,
        author |-> <<"alice">>],
       [sprite |-> <<"1", ".", "4", "a", ".png">>,
        entry  |-> <<"An alternate form of", " ", "POKENAME">>,
        author |-> <<"vera">>],
       [sprite |-> <<"1", ".", "4", ".png">>,
        entry  |-> <<"The bulb of", " ", "POKENAME", " ", "is warm">>,
        author |-> <<"bob">>],
       [sprite |-> <<"4", ".", "1", ".png">>,
        entry  |-> <<"A lizard with a seed on its back", ".">>,
        author |-> <<"carol">>],
       [sprite |-> <<"2", ".", "3", ".png">>,
        author |-> <<"dave">>] >>

\* a source without entries
DexSourceB == << >>

\* a source with a primary record and two variants of it
DexSourceC ==
    << [sprite |-> <<"1", "2", ".", "7", "a", ".png">>,
        entry  |-> <<"The first alternate of", " ", "POKENAME">>,
        author |-> <<"erin">>],
       [sprite |-> <<"1", "2", ".", "7", ".png">>,
        entry  |-> <<"POKENAME", " ", "hides in tall grass">>,
        author |-> <<"frank">>],
       [sprite |-> <<"1", "2", ".", "7", "B", ".png">>,
        entry  |-> <<"The second alternate of", " ", "POKENAME">>,
        author |-> <<"gina">>] >>

DexSources == {DexSourceA, DexSourceB, DexSourceC}

IsLetter(c) == c \in DOMAIN UpperToLower
               \/ \E u \in DOMAIN UpperToLower : UpperToLower[u] = c

\* a variant whose pattern lacks the i flag
isVariant_LowerOnly(fusionId) ==
    LET head  == TakeDigits(fusionId)
        rest  == SubSeq(fusionId, Len(head) + 1, Len(fusionId))
        body  == IF rest = << >> THEN << >> ELSE TakeDigits(Tail(rest))
        after == IF rest = << >> THEN << >>
                 ELSE SubSeq(rest, Len(body) + 2, Len(rest))
    IN  /\ Len(head) \in 1 .. 4
        /\ rest # << >> /\ rest[1] = "."
        /\ Len(body) \in 1 .. 4
        /\ Len(after) = 1
        /\ \E u \in DOMAIN UpperToLower : UpperToLower[u] = after[1]

\* VARIANT_REGEX.test(fusionId): /^(\d{1,4}\.\d{1,4})[a-z]$/i
isVariant(fusionId) ==
    LET head  == TakeDigits(fusionId)
        rest  == SubSeq(fusionId, Len(head) + 1, Len(fusionId))
        body  == IF rest = << >> THEN << >> ELSE TakeDigits(Tail(rest))
        after == IF rest = << >> THEN << >>
                 ELSE SubSeq(rest, Len(body) + 2, Len(rest))
    IN  /\ Len(head) \in 1 .. 4
        /\ rest # << >> /\ rest[1] = "."
        /\ Len(body) \in 1 .. 4
        /\ Len(after) = 1 /\ IsLetter(after[1])

\* s.replace('.png', ''): the first occurrence only
RemoveFirstPng(s) ==
    LET i == IndexOf(s, ".png")
    IN  IF i = 0 THEN s ELSE SubSeq(s, 1, i - 1) \o SubSeq(s, i + 1, Len(s))

\* !entry.sprite || !entry.entry || !entry.author
LacksField(entry) ==
    \/ OrEmpty(entry, "sprite") = << >>
    \/ OrEmpty(entry, "entry") = << >>
    \/ OrEmpty(entry, "author") = << >>

\* customPokedexEntries after the loop of initialize has run over the first
\* n entries of pokedexData, starting from `entries`
RECURSIVE IndexedEntries(_, _, _)
IndexedEntries(entries, pokedexData, n) ==
    IF n = 0 THEN entries
    ELSE LET before   == IndexedEntries(entries, pokedexData, n - 1)
             entry    == pokedexData[n]
             fusionId == RemoveFirstPng(entry.sprite)
         IN  IF LacksField(entry) THEN before
             ELSE IF isVariant(fusionId) THEN before
             ELSE MapSet(before, fusionId,
                         Append(IF fusionId \in DOMAIN before
                                THEN before[fusionId] ELSE << >>,
                                [entry |-> entry.entry, author |-> entry.author]))

\* `${headIndex}.${bodyIndex}`
FusionKey(headIndex, bodyIndex) ==
    NatToDigits(headIndex) \o <<".">> \o NatToDigits(bodyIndex)

\* a variant that looks the pair up in the other order
getCustomPokedexEntry_Swapped(headIndex, bodyIndex) ==
    LET fusionId == FusionKey(bodyIndex, headIndex)
    IN  IF ~isPokedexLoaded THEN {}
        ELSE IF fusionId \notin DOMAIN customPokedexEntries THEN {}
        ELSE LET entries == customPokedexEntries[fusionId]
             IN  {[entry |-> entries[i].entry, author |-> entries[i].author] :
                     i \in DOMAIN entries}

\* the entries getCustomPokedexEntry may return; {} stands for null
getCustomPokedexEntry(headIndex, bodyIndex) ==
    LET fusionId == FusionKey(headIndex, bodyIndex)
    IN  IF ~isPokedexLoaded THEN {}
        ELSE IF fusionId \notin DOMAIN customPokedexEntries THEN {}
        ELSE LET entries == customPokedexEntries[fusionId]
             IN  {[entry |-> entries[i].entry, author |-> entries[i].author] :
                     i \in DOMAIN entries}

\* the results calculateDexEntry may return, for records that are not null
calculateDexEntry(bodyPokemon, headPokemon, fusionName, headIndex, bodyIndex) ==
    LET custom == getCustomPokedexEntry(headIndex, bodyIndex)
    IN  IF custom # {}
        THEN {[entry  |-> ReplaceAll(customEntry.entry, <<"POKENAME">>, fusionName),
               author |-> customEntry.author] : customEntry \in custom}
        ELSE LET bodyEntry == ReplaceAll(OrEmpty(bodyPokemon, "pokedexEntry"),
                                         Stringify(bodyPokemon, "fullName"),
                                         fusionName)
                 headEntry == ReplaceAll(OrEmpty(headPokemon, "pokedexEntry"),
                                         Stringify(headPokemon, "fullName"),
                                         fusionName)
             IN  {[entry  |-> splitAndCombineText(bodyEntry, headEntry, "."),
                   author |-> <<"Auto-spliced Pokédex Entry">>]}

(***************************************************************************)
(* The engine's entry points.  Each gives the set of results the call may  *)
(* have, over the random choices it makes.                                 *)
(***************************************************************************)
\* type.toLowerCase() of the type tags
LowerTag ==
    [NORMAL |-> "normal", FLYING |-> "flying", FIRE |-> "fire",
     WATER |-> "water", ICE |-> "ice", GRASS |-> "grass",
     POISON |-> "poison", PSYCHIC |-> "psychic",
     Normal |-> "normal", Flying |-> "flying", Water |-> "water",
     Ice |-> "ice", Fire |-> "fire"]

\* fusionTypes.map(type => ({name, imageUrl}))
TypeObjects(fusionTypes) ==
    [i \in DOMAIN fusionTypes |->
        [name     |-> fusionTypes[i],
         imageUrl |-> <<"config.server.url", "/api/images/types/",
                        LowerTag[fusionTypes[i]]>>]]

\* the values new Date().toISOString() takes
Timestamps == {"t1", "t2"}

\* the name a side resolves to: the supplied one when it is valid, else a
\* random one
ResolvedNames_AlwaysRandom(supplied) == getRandomPokemonName

ResolvedNames(supplied) ==
    IF supplied # << >> /\ isValidPokemon(supplied)
    THEN {supplied}
    ELSE getRandomPokemonName

\* the results of prepareFusionData(options)
prepareFusionData(options) ==
    {[headPokemon |-> headPokemon,
      bodyPokemon |-> bodyPokemon,
      headIndex   |-> getPokemonIndex(headPokemon),
      bodyIndex   |-> getPokemonIndex(bodyPokemon),
      headData    |-> getPokemonById(getPokemonIndex(headPokemon)),
      bodyData    |-> getPokemonById(getPokemonIndex(bodyPokemon))] :
        headPokemon \in ResolvedNames(options.headPokemon),
        bodyPokemon \in ResolvedNames(options.bodyPokemon)}

\* whether a computation that reads both records throws
AnyNull(p) == IsNull(p.headData) \/ IsNull(p.bodyData)

\* the body of generateFusion's try block from the name on, for one
\* resolution p
FusionOf(p) ==
    LET name == calculateName(p.headIndex, p.bodyIndex, p.headData, p.bodyData)
    IN  IF name.threw \/ AnyNull(p)
        THEN {Throw("Failed to generate fusion")}
        ELSE
        LET fusionName == name.value
        IN  {Return(
              [leftPkmnIndex    |-> p.headIndex,
               rightPkmnIndex   |-> p.bodyIndex,
               fusionName       |-> fusionName,
               fusionId         |-> <<"#">> \o FusionKey(p.headIndex, p.bodyIndex),
               fusionImageUrl   |-> <<"config.server.url", "/api/images/fusion/">>
                                    \o NatToDigits(p.headIndex) \o <<"/">>
                                    \o NatToDigits(p.bodyIndex),
               leftPokemonName  |-> p.headPokemon,
               rightPokemonName |-> p.bodyPokemon,
               types            |-> TypeObjects(calculateTypes(p.headData, p.bodyData)),
               stats            |-> calculateBaseStats(p.headData, p.bodyData),
               pokedexEntry     |-> dex.entry,
               pokedexAuthor    |-> dex.author,
               category         |-> calculateCategory(p.bodyData, p.headData),
               height           |-> calculateHeight(p.headData, p.bodyData),
               weight           |-> calculateWeight(p.headData, p.bodyData),
               timestamp        |-> timestamp]) :
                 dex \in calculateDexEntry(p.headData, p.bodyData, fusionName,
                                           p.headIndex, p.bodyIndex),
                 timestamp \in Timestamps}

generateFusion(options) ==
    UNION {FusionOf(p) : p \in prepareFusionData(options)}

NamesOf_BodyFirstId(p) ==
    LET name == calculateName(p.headIndex, p.bodyIndex, p.headData, p.bodyData)
    IN  IF name.threw THEN Throw("TypeError")
        ELSE Return([fusionName       |-> name.value,
                     fusionId         |-> <<"#">> \o FusionKey(p.bodyIndex, p.headIndex),
                     leftPokemonName  |-> p.headPokemon,
                     rightPokemonName |-> p.bodyPokemon])

NamesOf(p) ==
    LET name == calculateName(p.headIndex, p.bodyIndex, p.headData, p.bodyData)
    IN  IF name.threw THEN Throw("TypeError")
        ELSE Return([fusionName       |-> name.value,
                     fusionId         |-> <<"#">> \o FusionKey(p.headIndex, p.bodyIndex),
                     leftPokemonName  |-> p.headPokemon,
                     rightPokemonName |-> p.bodyPokemon])

getFusionNames(options) == {NamesOf(p) : p \in prepareFusionData(options)}

TypesResultOf(p) ==
    IF AnyNull(p) THEN Throw("TypeError")
    ELSE Return([types |-> TypeObjects(calculateTypes(p.headData, p.bodyData))])

getFusionTypes(options) == {TypesResultOf(p) : p \in prepareFusionData(options)}

StatsResultOf(p) ==
    IF AnyNull(p) THEN Throw("TypeError")
    ELSE Return([stats |-> calculateBaseStats(p.headData, p.bodyData)])

getFusionStats(options) == {StatsResultOf(p) : p \in prepareFusionData(options)}

PokedexOf(p) ==
    LET name == calculateName(p.headIndex, p.bodyIndex, p.headData, p.bodyData)
    IN  IF name.threw \/ AnyNull(p) THEN {Throw("TypeError")}
        ELSE {Return([pokedexEntry  |-> dex.entry,
                      pokedexAuthor |-> dex.author,
                      category      |-> calculateCategory(p.bodyData, p.headData),
                      height        |-> calculateHeight(p.headData, p.bodyData),
                      weight        |-> calculateWeight(p.headData, p.bodyData)]) :
                dex \in calculateDexEntry(p.headData, p.bodyData, name.value,
                                          p.headIndex, p.bodyIndex)}

getFusionPokedex(options) ==
    UNION {PokedexOf(p) : p \in prepareFusionData(options)}

(***************************************************************************)
(* ImageService: the indexes of the sprite files and the resolution of a   *)
(* pair to a file.                                                         *)
(***************************************************************************)
\* a listing of the custom directory
CustomFilesA ==
    {<<"1", ".", "4", ".png">>, <<"4", ".", "1", ".png">>,
     <<"2", ".", "3", ".png">>, <<"1", ".", "4", "a", ".png">>,
     <<"notes", ".", "txt">>, <<"1", "2", ".", "7", ".png">>}

\* the outcomes of fs.readdir(CUSTOM_DIR)
CustomReads ==
    {[code |-> "ok", files |-> CustomFilesA],
     [code |-> "ok", files |-> {}],
     [code |-> "ENOENT", files |-> {}],
     [code |-> "EACCES", files |-> {}]}

\* a listing of the autogen directory: its entries, whether each is a
\* directory, and the files of each
AutogenDirsA ==
    {[name |-> <<"1">>, isDirectory |-> TRUE,
      files |-> {<<"1", ".", "4", ".png">>, <<"1", ".", "2", ".png">>,
                 <<"1", ".", "2", "a", ".png">>}],
     [name |-> <<"4">>, isDirectory |-> TRUE,
      files |-> {<<"4", ".", "3", ".png">>, <<"4", ".", "1", "2", ".png">>}],
     [name |-> <<"3">>, isDirectory |-> TRUE, files |-> {<<"readme">>}],
     [name |-> <<"5">>, isDirectory |-> FALSE, files |-> {}],
     [name |-> <<"unsorted">>, isDirectory |-> TRUE,
      files |-> {<<"6", ".", "6", ".png">>}]}

\* the outcomes of fs.readdir(AUTOGEN_DIR)
AutogenReads ==
    {[code |-> "ok", dirs |-> AutogenDirsA],
     [code |-> "ok", dirs |-> {}],
     [code |-> "ENOENT", dirs |-> {}],
     [code |-> "EACCES", dirs |-> {}]}

\* /^\d+$/.test(s)
AllDigits(s) == s # << >> /\ TakeDigits(s) = s

\* the digits of the second number of a file named <digits>.<digits>.png,
\* << >> for a file with another name: file.match(/^\d+\.(\d+)\.png$/)
BodyDigits(file) ==
    LET head == TakeDigits(file)
        rest == SubSeq(file, Len(head) + 1, Len(file))
        body == IF rest = << >> THEN << >> ELSE TakeDigits(Tail(rest))
    IN  IF /\ head # << >> /\ rest # << >> /\ rest[1] = "." /\ body # << >>
           /\ SubSeq(rest, Len(body) + 2, Len(rest)) = <<".png">>
        THEN body
        ELSE << >>

\* _indexCustomSprites over a listing: file.slice(0, -4) of the sprite files
IndexedCustom(sprites, files) ==
    sprites \cup {DropLast(file) : file \in {f \in files : BodyDigits(f) # << >>}}

\* the body ids of the files of a directory
BodyIds(dir) ==
    {DigitsToNat(BodyDigits(file)) :
        file \in {f \in dir.files : BodyDigits(f) # << >>}}

\* _indexAutogenSprites over a listing
IndexedAutogen(sprites, dirs) ==
    LET indexed == {dir \in dirs : /\ dir.isDirectory /\ AllDigits(dir.name)
                                   /\ BodyIds(dir) # {}}
        heads   == {DigitsToNat(dir.name) : dir \in indexed}
    IN  [headId \in DOMAIN sprites \cup heads |->
            IF headId \in heads
            THEN BodyIds(CHOOSE dir \in indexed : DigitsToNat(dir.name) = headId)
            ELSE sprites[headId]]

NULL_SPRITE == <<"/assets/sprites/null.png">>

\* `${headId}.${bodyId}`
SpriteKeyOf(headId, bodyId) ==
    NatToDigits(headId) \o <<".">> \o NatToDigits(bodyId)

\* a variant that looks the generated index up first
generateFusionImagePath_AutogenFirst(headId, bodyId) ==
    IF ~imageIsInitialized
    THEN [imageUrl |-> NULL_SPRITE, attribution |-> "Missing sprite."]
    ELSE IF headId \in DOMAIN autogenSprites /\ bodyId \in autogenSprites[headId]
    THEN [imageUrl |-> <<"/data/infinite-fusion-graphics/autogen/">>
                       \o NatToDigits(headId) \o <<"/">>
                       \o SpriteKeyOf(headId, bodyId) \o <<".png">>,
          attribution |-> "japeal"]
    ELSE IF SpriteKeyOf(headId, bodyId) \in customSprites
    THEN [imageUrl |-> <<"/data/infinite-fusion-graphics/custom/">>
                       \o SpriteKeyOf(headId, bodyId) \o <<".png">>,
          attribution |-> "custom"]
    ELSE [imageUrl |-> NULL_SPRITE, attribution |-> "Missing sprite."]

generateFusionImagePath(headId, bodyId) ==
    IF ~imageIsInitialized
    THEN [imageUrl |-> NULL_SPRITE, attribution |-> "Missing sprite."]
    ELSE IF SpriteKeyOf(headId, bodyId) \in customSprites
    THEN [imageUrl |-> <<"/data/infinite-fusion-graphics/custom/">>
                       \o SpriteKeyOf(headId, bodyId) \o <<".png">>,
          attribution |-> "custom"]
    ELSE IF headId \in DOMAIN autogenSprites /\ bodyId \in autogenSprites[headId]
    THEN [imageUrl |-> <<"/data/infinite-fusion-graphics/autogen/">>
                       \o NatToDigits(headId) \o <<"/">>
                       \o SpriteKeyOf(headId, bodyId) \o <<".png">>,
          attribution |-> "japeal"]
    ELSE [imageUrl |-> NULL_SPRITE, attribution |-> "Missing sprite."]

\* a JavaScript number: NaN, or an integer
NaN == [isNaN |-> TRUE, n |-> 0]

Number(n) == [isNaN |-> FALSE, n |-> n]

\* parseInt(s, 10): leading white space, a sign, then the longest run of
\* digits; whatever follows the digits is ignored
parseInt(s) ==
    LET trimmed == TrimLeft(s)
        signed  == trimmed # << >> /\ trimmed[1] \in {"-", "+"}
        digits  == TakeDigits(IF signed THEN Tail(trimmed) ELSE trimmed)
    IN  IF digits = << >> THEN NaN
        ELSE IF signed /\ trimmed[1] = "-" THEN Number(0 - DigitsToNat(digits))
        ELSE Number(DigitsToNat(digits))

\* !n || n < 1
NotPositive(x) == x.isNaN \/ x.n = 0 \/ x.n < 1

validateFusionParams(headId, bodyId) ==
    LET headNum == parseInt(headId)
        bodyNum == parseInt(bodyId)
    IN  IF NotPositive(headNum) \/ NotPositive(bodyNum)
        THEN [valid |-> FALSE,
              error |-> [message  |-> "headId and bodyId must be positive numbers",
                         provided |-> [headId |-> headId, bodyId |-> bodyId]]]
        ELSE [valid |-> TRUE, headId |-> headNum.n, bodyId |-> bodyNum.n]

\* ImageController.getFusionImage: the response, and whether
\* generateFusionImagePath was called
getFusionImage(params) ==
    LET validation == validateFusionParams(params.headId, params.bodyId)
    IN  IF ~validation.valid
        THEN [response |-> [status |-> 400,
                            json   |-> [success  |-> FALSE,
                                        error    |-> "Invalid parameters",
                                        message  |-> validation.error.message,
                                        provided |-> validation.error.provided]],
              resolved |-> FALSE]
        ELSE LET imageResult == generateFusionImagePath(validation.headId,
                                                        validation.bodyId)
             IN  [response |-> [status      |-> 200,
                                imageSource |-> imageResult.attribution,
                                file        |-> <<"__dirname/..">>
                                                \o imageResult.imageUrl],
                  resolved |-> TRUE,
                  headId   |-> validation.headId,
                  bodyId   |-> validation.bodyId]

(***************************************************************************)
(* The fusion controller (handleFusionRequest) and the error middleware.   *)
(* A response is its status and its JSON body.                             *)
(***************************************************************************)
\* the service methods the routes pass to handleFusionRequest
ServiceMethods ==
    {"generateFusion", "getFusionNames", "getFusionTypes", "getFusionStats",
     "getFusionPokedex"}

\* the logContext each route passes
LogContext ==
    [generateFusion   |-> "complete fusion data",
     getFusionNames   |-> "fusion names",
     getFusionTypes   |-> "fusion types",
     getFusionStats   |-> "fusion stats",
     getFusionPokedex |-> "fusion pokedex"]

\* await serviceMethod({ headPokemon, bodyPokemon }): its possible outcomes
ServiceResults(serviceMethod, options) ==
    CASE serviceMethod = "generateFusion"   -> generateFusion(options)
      [] serviceMethod = "getFusionNames"   -> getFusionNames(options)
      [] serviceMethod = "getFusionTypes"   -> getFusionTypes(options)
      [] serviceMethod = "getFusionStats"   -> getFusionStats(options)
      [] serviceMethod = "getFusionPokedex" -> getFusionPokedex(options)

\* config.server.environment: NODE_ENV, 'development' by default
Environments == {"production", "development", "test"}

\* res.status(400).json({ success: false, error: `Invalid <side> Pokemon: ...` })
InvalidResponse(side, value) ==
    [status |-> 400,
     json   |-> [success |-> FALSE,
                 error   |-> <<"Invalid ", side, " Pokemon: ">> \o value
                             \o <<". Use GET /api/pokemon to see available Pokemon.">>]]

\* a variant that attaches the details in every environment
ErrorResponse_AlwaysDetails(errorText, message, environment) ==
    [status |-> 500,
     json   |-> [success |-> FALSE, error |-> errorText, details |-> message]]

\* res.status(500).json({ success: false, error, ...(environment !==
\* 'production' && { details: message }) })
ErrorResponse(errorText, message, environment) ==
    [status |-> 500,
     json   |-> IF environment # "production"
                THEN [success |-> FALSE, error |-> errorText, details |-> message]
                ELSE [success |-> FALSE, error |-> errorText]]

\* res.json({ success: true, data: result, processingTime })
SuccessResponse(result) ==
    [status |-> 200,
     json   |-> [success |-> TRUE, data |-> result, processingTime |-> "durationMs"]]

\* the service call and the responses after it, for validated names
Served(headPokemon, bodyPokemon, serviceMethod, environment) ==
    {[response |-> IF result.threw
                   THEN ErrorResponse(<<"Failed to get ", LogContext[serviceMethod]>>,
                                      result.error, environment)
                   ELSE SuccessResponse(result.value),
      invoked  |-> TRUE] :
        result \in ServiceResults(serviceMethod,
                                  [headPokemon |-> headPokemon,
                                   bodyPokemon |-> bodyPokemon])}

\* a variant that validates the body value before the head value
handleFusionRequest_BodyFirst(query, serviceMethod, environment) ==
    LET headPokemon == normalizePokemonName(query.head)
        bodyPokemon == normalizePokemonName(query.body)
    IN  IF query.body # << >> /\ bodyPokemon = << >>
        THEN {[response |-> InvalidResponse("body", query.body), invoked |-> FALSE]}
        ELSE IF query.head # << >> /\ headPokemon = << >>
        THEN {[response |-> InvalidResponse("head", query.head), invoked |-> FALSE]}
        ELSE Served(headPokemon, bodyPokemon, serviceMethod, environment)

\* the outcomes of handleFusionRequest: the response, and whether the
\* service method was called
handleFusionRequest(query, serviceMethod, environment) ==
    LET headPokemon == normalizePokemonName(query.head)
        bodyPokemon == normalizePokemonName(query.body)
    IN  IF query.head # << >> /\ headPokemon = << >>
        THEN {[response |-> InvalidResponse("head", query.head), invoked |-> FALSE]}
        ELSE IF query.body # << >> /\ bodyPokemon = << >>
        THEN {[response |-> InvalidResponse("body", query.body), invoked |-> FALSE]}
        ELSE Served(headPokemon, bodyPokemon, serviceMethod, environment)

\* the messages of the errors that reach the error middleware
ErrorMessages == {"TypeError", "ReadError", "Failed to generate fusion"}

\* errorHandler(err, req, res, next)
errorHandler(err, environment) ==
    ErrorResponse(<<"Internal server error">>, err, environment)

(***************************************************************************)
(* Inputs.                                                                 *)
(***************************************************************************)
\* records that differ in their stats, every stat over a range of values
StatRecord(x, y) ==
    [hp |-> x, attack |-> y, defense |-> x + y,
     specialAttack |-> 2 * x + 1, specialDefense |-> 3 * y + 2, speed |-> x * y]

StatRecords ==
    {StatRecord(x, y) : x \in 0 .. MaxStat, y \in 0 .. MaxStat}
        \cup {BulbasaurData, CharmanderData}
        \cup {[fullName |-> Mew]}

\* the type tags of the calls to calculateTypes: the tags of the type table
\* (upper case) and the same words capitalised
Tags == {"NORMAL", "FLYING", "WATER", "ICE",
         "Normal", "Flying", "Water", "Ice", "Fire"}

\* records with 0, 1 or 2 types, and one without the field
TypeRecords ==
    {[types |-> << >>]} \cup {[types |-> <<a>>] : a \in Tags}
        \cup {[types |-> <<a, b>>] : a \in Tags, b \in Tags}
        \cup {[fullName |-> Mew]}

\* a record without a full name, of an id the split table does not have
NamelessData == [id |-> 7, types |-> <<"FIRE">>]

\* height and weight strings with the magnitude each writes, in tenths; the
\* last two write none, and `absent` stands for a record without the field
Magnitudes ==
    {[text |-> <<"1", "5", "0", " ", "c", "m">>, tenths |-> 1500],
     [text |-> <<"6", "1", " ", "c", "m">>, tenths |-> 610],
     [text |-> <<"7", "0", " ", "c", "m">>, tenths |-> 700],
     [text |-> <<"6", ".", "9", " ", "k", "g">>, tenths |-> 69],
     [text |-> <<"8", ".", "5", " ", "k", "g">>, tenths |-> 85],
     [text |-> <<"1", "9", ".", "5", " ", "k", "g">>, tenths |-> 195],
     [text |-> <<"4", "8">>, tenths |-> 480],
     [text |-> <<"0", ".", "4", " ", "m">>, tenths |-> 4],
     [text |-> <<"unknown">>, tenths |-> 0],
     [text |-> << >>, tenths |-> 0],
     [text |-> <<"absent">>, tenths |-> 0]}

\* the record with the string of magnitude m in field f
Measured(m, f) ==
    IF m.text = <<"absent">> THEN [fullName |-> Mew]
    ELSE [g \in {f} |-> m.text]

\* the (index, record) pairs of the calls to calculateName: the roster's, an
\* unresolved side (index 0, no record) and the record without a name
NameInputs ==
    {[index |-> FusionDexSource[i].data.id, data |-> FusionDexSource[i].data] :
        i \in DOMAIN FusionDexSource}
        \cup {[index |-> 0, data |-> null]}
        \cup {[index |-> NamelessData.id, data |-> NamelessData]}

\* the names a request may supply for a side: none, roster names in two
\* casings, and a name that is not in the roster
NameOptions ==
    {<< >>, Bulbasaur, toLowerCase(Bulbasaur), Pidgey, Abra, Charmander,
     Alakazam, Mew, <<"M", "i", "s", "s", "i", "n", "g", "N", "o">>}

Options == [headPokemon : NameOptions, bodyPokemon : NameOptions]

\* the values of the :headId and :bodyId route parameters
ParamValues ==
    {<<"1">>, <<"4">>, <<"2">>, <<"1", "2">>, <<"0">>, <<"-", "3">>,
     <<"a", "b", "c">>, <<"4", "a", "b", "c">>, <<"1", ".", "5">>,
     <<" ", "7">>}

(***************************************************************************)
(* The rate limiting middleware of index.js.                               *)
(***************************************************************************)
windowMs == 60000

maxRequests == 10

\* the step of the clock and the time the model runs for, in milliseconds
TickMs == 20000

MaxNow == 160000

\* the client addresses
Ips == {"ip1", "ip2"}

\* res.status(429).json({...})
TooManyRequests ==
    [status |-> 429,
     json   |-> [success |-> FALSE,
                 error   |-> "Too many requests",
                 message |-> "Rate limit exceeded. Please try again later."]]

\* the response is left to the handlers after the middleware
Passed == [status |-> 0, json |-> << >>]

rateLimit_CountsPastLimit(ip, t) ==
    IF ip \notin DOMAIN requestCounts
    THEN [requestCounts |-> MapSet(requestCounts, ip,
                                   [count |-> 1, resetTime |-> t + windowMs]),
          next |-> TRUE, response |-> Passed]
    ELSE LET userData == requestCounts[ip]
         IN  IF t > userData.resetTime
             THEN [requestCounts |-> MapSet(requestCounts, ip,
                                            [count |-> 1,
                                             resetTime |-> t + windowMs]),
                   next |-> TRUE, response |-> Passed]
             ELSE IF userData.count > maxRequests
             THEN [requestCounts |-> requestCounts,
                   next |-> FALSE, response |-> TooManyRequests]
             ELSE [requestCounts |-> MapSet(requestCounts, ip,
                                            [userData EXCEPT !.count = @ + 1]),
                   next |-> TRUE, response |-> Passed]

\* the middleware on a request of ip at time t: the counters after it,
\* whether next() was called, and the response it sent
rateLimit(ip, t) ==
    IF ip \notin DOMAIN requestCounts
    THEN [requestCounts |-> MapSet(requestCounts, ip,
                                   [count |-> 1, resetTime |-> t + windowMs]),
          next |-> TRUE, response |-> Passed]
    ELSE LET userData == requestCounts[ip]
         IN  IF t > userData.resetTime
             THEN [requestCounts |-> MapSet(requestCounts, ip,
                                            [count |-> 1,
                                             resetTime |-> t + windowMs]),
                   next |-> TRUE, response |-> Passed]
             ELSE IF userData.count >= maxRequests
             THEN [requestCounts |-> requestCounts,
                   next |-> FALSE, response |-> TooManyRequests]
             ELSE [requestCounts |-> MapSet(requestCounts, ip,
                                            [userData EXCEPT !.count = @ + 1]),
                   next |-> TRUE, response |-> Passed]

(***************************************************************************)
(* The state machine.                                                      *)
(***************************************************************************)
\* the stores of ImageService
ImageStores == <<imageIsInitialized, customSprites, autogenSprites>>

Stores == <<isInitialized, pokemonData, pokemonById, pokemonNames,
            isPokedexLoaded, customPokedexEntries, ImageStores>>

\* the rate limiter's counters and clock
RateLimiter == <<requestCounts, now>>

\* the state outside the stores
OtherState == <<RateLimiter, pendingLoads>>

Init ==
    /\ requestCounts = EmptyMap
    /\ now = 0
    /\ pendingLoads = << >>
    /\ isInitialized = FALSE
    /\ pokemonData = EmptyMap
    /\ pokemonById = EmptyMap
    /\ pokemonNames = << >>
    /\ isPokedexLoaded = FALSE
    /\ customPokedexEntries = EmptyMap
    /\ imageIsInitialized = FALSE
    /\ customSprites = {}
    /\ autogenSprites = EmptyMap
    /\ call = [op |-> "none"]
    /\ ret = Return(<< >>)

\* no call is in progress: JavaScript runs one handler at a time
Idle == call.op = "none"

\* the caller takes the result of the call
Complete ==
    /\ ~Idle
    /\ call' = [op |-> "none"]
    /\ ret' = Return(<< >>)
    /\ UNCHANGED <<Stores, OtherState>>

\* pure calculators, on records of the caller's choice
CallCalculateBaseStats ==
    \E h \in StatRecords, b \in StatRecords :
        /\ Idle
        /\ call' = [op |-> "calculateBaseStats", head |-> h, body |-> b]
        /\ ret' = Return(calculateBaseStats(h, b))
        /\ UNCHANGED <<Stores, OtherState>>

CallCalculateTypes ==
    \E h \in TypeRecords, b \in TypeRecords :
        /\ Idle
        /\ call' = [op |-> "calculateTypes", head |-> h, body |-> b]
        /\ ret' = Return([type1 |-> calculateType1(h),
                          type2 |-> calculateType2(b, calculateType1(h)),
                          types |-> calculateTypes(h, b)])
        /\ UNCHANGED <<Stores, OtherState>>

CallCalculateName ==
    \E h \in NameInputs, b \in NameInputs :
        /\ Idle
        /\ call' = [op |-> "calculateName", head |-> h, body |-> b]
        /\ ret' = calculateName(h.index, b.index, h.data, b.data)
        /\ UNCHANGED <<Stores, OtherState>>

CallCalculateHeight ==
    \E h \in Magnitudes, b \in Magnitudes :
        /\ Idle
        /\ call' = [op |-> "calculateHeight", head |-> h, body |-> b]
        /\ ret' = Return(calculateHeight(Measured(h, "height"),
                                         Measured(b, "height")))
        /\ UNCHANGED <<Stores, OtherState>>

CallCalculateWeight ==
    \E h \in Magnitudes, b \in Magnitudes :
        /\ Idle
        /\ call' = [op |-> "calculateWeight", head |-> h, body |-> b]
        /\ ret' = Return(calculateWeight(Measured(h, "weight"),
                                         Measured(b, "weight")))
        /\ UNCHANGED <<Stores, OtherState>>

\* PokemonService.initialize: the read of the roster file succeeds or throws
InitializePokemon ==
    \E readOk \in BOOLEAN, fusionDexData \in RosterSources :
        /\ Idle
        /\ call' = [op |-> "PokemonService.initialize"]
        /\ IF isInitialized
           THEN /\ ret' = Return(<< >>)
                /\ UNCHANGED <<Stores, OtherState>>
           ELSE IF ~readOk
           THEN /\ ret' = Throw("ReadError")
                /\ UNCHANGED <<Stores, OtherState>>
           ELSE /\ pokemonData' = [k \in DOMAIN pokemonData
                                        \cup DOMAIN LoadedData(fusionDexData,
                                                               Len(fusionDexData)) |->
                                    IF k \in DOMAIN LoadedData(fusionDexData,
                                                               Len(fusionDexData))
                                    THEN LoadedData(fusionDexData,
                                                    Len(fusionDexData))[k]
                                    ELSE pokemonData[k]]
                /\ pokemonById' = [k \in DOMAIN pokemonById
                                        \cup DOMAIN LoadedById(fusionDexData,
                                                               Len(fusionDexData)) |->
                                    IF k \in DOMAIN LoadedById(fusionDexData,
                                                               Len(fusionDexData))
                                    THEN LoadedById(fusionDexData,
                                                    Len(fusionDexData))[k]
                                    ELSE pokemonById[k]]
                /\ pokemonNames' = SortNames(pokemonNames
                                             \o LoadedNames(fusionDexData))
                /\ isInitialized' = TRUE
                /\ ret' = Return(<< >>)
                /\ UNCHANGED <<isPokedexLoaded, customPokedexEntries,
                               ImageStores, OtherState>>

(***************************************************************************)
(* PokemonService.initialize as the asynchronous function it is: it runs   *)
(* to its `await fs.readFile`, other handlers run, and it resumes with the *)
(* file's contents.  pendingLoads lists the calls that are suspended, each *)
(* with the function that made it and whether the roster was loaded then.  *)
(***************************************************************************)
\* the calls of initialize that may be in flight at once, and the length
\* the names list may grow to
MaxPending == 2

MaxNames == 9

\* Map.set of every entry of new over old
Merge(old, new) ==
    [k \in DOMAIN old \cup DOMAIN new |->
        IF k \in DOMAIN new THEN new[k] ELSE old[k]]

\* what resumes a suspended initialize: the read throws, or it gives a
\* source whose record number bad is null (0: every record is well formed;
\* otherwise the last record is the malformed one)
LoadReads ==
    {[ok |-> FALSE, source |-> << >>, bad |-> 0]}
        \cup UNION {{[ok |-> TRUE, source |-> source, bad |-> bad] :
                        bad \in {0, Len(source)}} : source \in RosterSources}

\* the records the loop stores before it ends or throws
StoredCount(read) ==
    IF ~read.ok THEN 0
    ELSE IF read.bad = 0 THEN Len(read.source)
    ELSE read.bad - 1

\* whether the resumed call throws
LoadThrows(read) == ~read.ok \/ read.bad # 0

\* s with its element number i removed
RemoveAt(s, i) == SubSeq(s, 1, i - 1) \o SubSeq(s, i + 1, Len(s))

getPokemonByName_Unguarded(name) ==
    IF name = << >> THEN null
    ELSE IF toLowerCase(name) \in DOMAIN pokemonData
         THEN pokemonData[toLowerCase(name)]
         ELSE null

getPokemonByName(name) ==
    IF name = << >> \/ ~isInitialized THEN null
    ELSE IF toLowerCase(name) \in DOMAIN pokemonData
         THEN pokemonData[toLowerCase(name)]
         ELSE null

getAllPokemonNames == IF ~isInitialized THEN << >> ELSE pokemonNames

\* a call of initialize, up to its await
BeginInitialize ==
    /\ Idle
    /\ Len(pendingLoads) < MaxPending
    /\ call' = [op |-> "initialize"]
    /\ ret' = Return(<< >>)
    /\ pendingLoads' = IF isInitialized THEN pendingLoads
                       ELSE Append(pendingLoads, [via       |-> "initialize",
                                                   hadRoster |-> FALSE])
    /\ UNCHANGED <<Stores, RateLimiter>>

\* a call of refreshCache, up to the await inside its call of initialize
RefreshCache ==
    /\ Idle
    /\ Len(pendingLoads) < MaxPending
    /\ call' = [op |-> "refreshCache"]
    /\ ret' = Return(<< >>)
    /\ pokemonData' = EmptyMap
    /\ pokemonById' = EmptyMap
    /\ pokemonNames' = << >>
    /\ isInitialized' = FALSE
    /\ pendingLoads' = Append(pendingLoads, [via       |-> "refreshCache",
                                             hadRoster |-> isInitialized])
    /\ UNCHANGED <<isPokedexLoaded, customPokedexEntries, ImageStores,
                   RateLimiter>>

\* a suspended initialize resumes after its await and runs to its end
ResumeInitialize ==
    \E i \in DOMAIN pendingLoads, read \in LoadReads :
        LET n == StoredCount(read)
        IN  /\ Idle
            /\ Len(pokemonNames) + n <= MaxNames
            /\ call' = [op        |-> "initialize.resume",
                         via       |-> pendingLoads[i].via,
                         hadRoster |-> pendingLoads[i].hadRoster]
            /\ pendingLoads' = RemoveAt(pendingLoads, i)
            /\ ret' = IF ~read.ok THEN Throw("ReadError")
                      ELSE IF read.bad # 0 THEN Throw("TypeError")
                      ELSE Return(<< >>)
            /\ pokemonData' = Merge(pokemonData, LoadedData(read.source, n))
            /\ pokemonById' = Merge(pokemonById, LoadedById(read.source, n))
            /\ pokemonNames' =
                   IF LoadThrows(read)
                   THEN pokemonNames \o SubSeq(LoadedNames(read.source), 1, n)
                   ELSE SortNames(pokemonNames \o LoadedNames(read.source))
            /\ isInitialized' = IF LoadThrows(read) THEN isInitialized ELSE TRUE
            /\ UNCHANGED <<isPokedexLoaded, customPokedexEntries, ImageStores,
                           RateLimiter>>

\* the ids a caller may look up
LookupIds == {0, 1, 3, 7}

\* the lookups of PokemonService, for one name and one id
Lookup ==
    \E name \in NameOptions, id \in LookupIds :
        /\ Idle
        /\ call' = [op |-> "lookup", name |-> name, id |-> id]
        /\ ret' = Return([isValidPokemon       |-> isValidPokemon(name),
                          normalizePokemonName |-> normalizePokemonName(name),
                          getRandomPokemonName |-> getRandomPokemonName,
                          getPokemonByName     |-> getPokemonByName(name),
                          getPokemonById       |-> getPokemonById(id),
                          getPokemonIndex      |-> getPokemonIndex(name),
                          getAllPokemonNames   |-> getAllPokemonNames])
        /\ UNCHANGED <<Stores, OtherState>>

\* FusionService.initialize: a failed read is logged and swallowed
InitializeFusion ==
    \E readOk \in BOOLEAN, pokedexData \in DexSources :
        /\ Idle
        /\ call' = [op |-> "FusionService.initialize"]
        /\ ret' = Return(<< >>)
        /\ IF isPokedexLoaded \/ ~readOk
           THEN UNCHANGED <<Stores, OtherState>>
           ELSE /\ customPokedexEntries' =
                       IndexedEntries(customPokedexEntries, pokedexData,
                                      Len(pokedexData))
                /\ isPokedexLoaded' = TRUE
                /\ UNCHANGED <<isInitialized, pokemonData, pokemonById,
                               pokemonNames, ImageStores, OtherState>>

\* ImageService.initialize: each directory is listed, is missing (which is
\* logged and skipped) or cannot be read (which is thrown)
InitializeImage ==
    \E custom \in CustomReads, autogen \in AutogenReads :
        /\ Idle
        /\ call' = [op |-> "ImageService.initialize"]
        /\ UNCHANGED <<isInitialized, pokemonData, pokemonById, pokemonNames,
                       isPokedexLoaded, customPokedexEntries, OtherState>>
        /\ IF imageIsInitialized
           THEN /\ ret' = Return(<< >>)
                /\ UNCHANGED ImageStores
           ELSE IF custom.code = "EACCES"
           THEN /\ ret' = Throw("EACCES")
                /\ UNCHANGED ImageStores
           ELSE IF autogen.code = "EACCES"
           THEN /\ customSprites' = IndexedCustom(customSprites, custom.files)
                /\ ret' = Throw("EACCES")
                /\ UNCHANGED <<imageIsInitialized, autogenSprites>>
           ELSE /\ customSprites' = IndexedCustom(customSprites, custom.files)
                /\ autogenSprites' = IndexedAutogen(autogenSprites, autogen.dirs)
                /\ imageIsInitialized' = TRUE
                /\ ret' = Return(<< >>)

\* a request to GET /api/images/fusion/:headId/:bodyId
GetFusionImage ==
    \E headId \in ParamValues, bodyId \in ParamValues :
        LET params  == [headId |-> headId, bodyId |-> bodyId]
            outcome == getFusionImage(params)
        IN  /\ Idle
            /\ call' = [op |-> "getFusionImage", params |-> params,
                         resolved |-> outcome.resolved]
            /\ ret' = Return(outcome.response)
            /\ UNCHANGED <<Stores, OtherState>>

\* a request to one of the fusion routes
HandleFusionRequest ==
    /\ Idle
    /\ \E head \in NameOptions, body \in NameOptions,
          serviceMethod \in ServiceMethods, environment \in Environments :
         \E outcome \in handleFusionRequest([head |-> head, body |-> body],
                                            serviceMethod, environment) :
           /\ call' = [op |-> "handleFusionRequest",
                        query |-> [head |-> head, body |-> body],
                        serviceMethod |-> serviceMethod,
                        environment |-> environment,
                        invoked |-> outcome.invoked]
           /\ ret' = Return(outcome.response)
           /\ UNCHANGED <<Stores, OtherState>>

\* an error no route caught reaches the error middleware
ErrorHandler ==
    /\ Idle
    /\ \E err \in ErrorMessages, environment \in Environments :
           /\ call' = [op |-> "errorHandler", err |-> err,
                        environment |-> environment]
           /\ ret' = Return(errorHandler(err, environment))
           /\ UNCHANGED <<Stores, OtherState>>

\* a request of one client passes through the rate limiting middleware
RateLimit ==
    \E ip \in Ips :
        LET outcome == rateLimit(ip, now)
        IN  /\ Idle
            /\ call' = [op |-> "rateLimit", ip |-> ip, next |-> outcome.next]
            /\ ret' = Return(outcome.response)
            /\ requestCounts' = outcome.requestCounts
            /\ UNCHANGED <<Stores, now, pendingLoads>>

\* time passes
Tick ==
    /\ Idle
    /\ now < MaxNow
    /\ now' = now + TickMs
    /\ UNCHANGED <<Stores, requestCounts, pendingLoads, call, ret>>

\* a lookup of the id of a name, as the resolution path makes it
GetPokemonIndex ==
    \E name \in NameOptions :
        /\ Idle
        /\ call' = [op |-> "getPokemonIndex", name |-> name]
        /\ ret' = Return(getPokemonIndex(name))
        /\ UNCHANGED <<Stores, OtherState>>

GenerateFusion ==
    /\ Idle
    /\ \E options \in Options : \E r \in generateFusion(options) :
           /\ call' = [op |-> "generateFusion", options |-> options]
           /\ ret' = r
           /\ UNCHANGED <<Stores, OtherState>>

GetFusionNames ==
    /\ Idle
    /\ \E options \in Options : \E r \in getFusionNames(options) :
           /\ call' = [op |-> "getFusionNames", options |-> options]
           /\ ret' = r
           /\ UNCHANGED <<Stores, OtherState>>

GetFusionTypes ==
    /\ Idle
    /\ \E options \in Options : \E r \in getFusionTypes(options) :
           /\ call' = [op |-> "getFusionTypes", options |-> options]
           /\ ret' = r
           /\ UNCHANGED <<Stores, OtherState>>

GetFusionStats ==
    /\ Idle
    /\ \E options \in Options : \E r \in getFusionStats(options) :
           /\ call' = [op |-> "getFusionStats", options |-> options]
           /\ ret' = r
           /\ UNCHANGED <<Stores, OtherState>>

GetFusionPokedex_Consumes ==
    /\ Idle
    /\ \E options \in Options : \E r \in getFusionPokedex(options) :
           /\ call' = [op |-> "getFusionPokedex", options |-> options]
           /\ ret' = r
           /\ customPokedexEntries' = EmptyMap
           /\ UNCHANGED <<isInitialized, pokemonData, pokemonById,
                          pokemonNames, isPokedexLoaded, ImageStores,
                          OtherState>>

GetFusionPokedex ==
    /\ Idle
    /\ \E options \in Options : \E r \in getFusionPokedex(options) :
           /\ call' = [op |-> "getFusionPokedex", options |-> options]
           /\ ret' = r
           /\ UNCHANGED <<Stores, OtherState>>

\* the engine and its stores
Next ==
    \/ InitializePokemon
    \/ InitializeFusion
    \/ GenerateFusion
    \/ GetFusionNames
    \/ GetFusionTypes
    \/ GetFusionStats
    \/ GetFusionPokedex
    \/ Complete
    \/ GetPokemonIndex

Spec == Init /\ [][Next]_vars

\* the engine, the image routes and the stores of both
NextRequests ==
    \/ InitializePokemon
    \/ InitializeFusion
    \/ InitializeImage
    \/ GenerateFusion
    \/ GetFusionNames
    \/ GetFusionTypes
    \/ GetFusionStats
    \/ GetFusionPokedex
    \/ GetFusionImage
    \/ Complete

SpecRequests == Init /\ [][NextRequests]_vars

\* the rate limiting middleware and the clock
NextRate ==
    \/ RateLimit
    \/ Tick
    \/ Complete

SpecRate == Init /\ [][NextRate]_vars

\* the roster's loading and refreshing, interleaved with lookups and
\* fusion requests
NextLoad ==
    \/ BeginInitialize
    \/ ResumeInitialize
    \/ RefreshCache
    \/ Lookup
    \/ HandleFusionRequest
    \/ Complete

SpecLoad == Init /\ [][NextLoad]_vars

\* the calculators alone
\* the HTTP boundary: the stores' initialisation, the fusion routes and the
\* error middleware
NextHttp ==
    \/ InitializePokemon
    \/ InitializeFusion
    \/ HandleFusionRequest
    \/ ErrorHandler
    \/ Complete

SpecHttp == Init /\ [][NextHttp]_vars

\* the image routes
NextImage ==
    \/ InitializeImage
    \/ GetFusionImage
    \/ Complete

SpecImage == Init /\ [][NextImage]_vars

NextCalc ==
    \/ CallCalculateBaseStats
    \/ CallCalculateTypes
    \/ CallCalculateName
    \/ CallCalculateHeight
    \/ CallCalculateWeight
    \/ Complete

SpecCalc == Init /\ [][NextCalc]_vars

(***************************************************************************)
(* Claims about the calculators, checked under SpecCalc.                   *)
(***************************************************************************)
StatFields ==
    {"hp", "attack", "defense", "specialAttack", "specialDefense", "speed"}

\* the call in progress is calculateBaseStats on two records that carry all
\* six stats
StatsCall ==
    /\ call.op = "calculateBaseStats"
    /\ StatFields \subseteq DOMAIN call.head
    /\ StatFields \subseteq DOMAIN call.body

\* C1: for records with non-negative integer stats, HP, SPECIAL_ATTACK and
\* SPECIAL_DEFENSE are floor(2*head/3) + floor(body/3), and ATTACK, DEFENSE
\* and SPEED are floor(2*body/3) + floor(head/3); head HP 45 with body HP 39
\* gives 43.
C1_StatFormula ==
    StatsCall =>
        LET h == call.head
            b == call.body
            r == ret.value
        IN  /\ r.HP = ((2 * h.hp) \div 3) + (b.hp \div 3)
            /\ r.SPECIAL_ATTACK
                 = ((2 * h.specialAttack) \div 3) + (b.specialAttack \div 3)
            /\ r.SPECIAL_DEFENSE
                 = ((2 * h.specialDefense) \div 3) + (b.specialDefense \div 3)
            /\ r.ATTACK = ((2 * b.attack) \div 3) + (h.attack \div 3)
            /\ r.DEFENSE = ((2 * b.defense) \div 3) + (h.defense \div 3)
            /\ r.SPEED = ((2 * b.speed) \div 3) + (h.speed \div 3)
            /\ (h.hp = 45 /\ b.hp = 39 => r.HP = 43)

C1_Witness ==
    /\ StatsCall
    /\ call.head.hp = 45 /\ call.body.hp = 39
    /\ ret.value.HP = 43

\* C2: TOTAL is the sum of exactly the six derived stats, and the result has
\* these seven fields and no other.
C2_TotalIsSumOfSix ==
    call.op = "calculateBaseStats" =>
        LET r == ret.value
        IN  /\ DOMAIN r = {"HP", "ATTACK", "DEFENSE", "SPECIAL_ATTACK",
                           "SPECIAL_DEFENSE", "SPEED", "TOTAL"}
            /\ r.TOTAL = r.HP + r.ATTACK + r.DEFENSE + r.SPECIAL_ATTACK
                         + r.SPECIAL_DEFENSE + r.SPEED

C2_Witness ==
    /\ StatsCall
    /\ call.head.hp = 45 /\ call.body.hp = 39
    /\ ret.value.SPEED = 58
    /\ ret.value.TOTAL = 317

\* the call in progress is calculateTypes
TypesCall == call.op = "calculateTypes"

\* the head's first type, absent when it has none
HeadFirst == IF Len(TypesOf(call.head)) >= 1 THEN TypesOf(call.head)[1] ELSE undefined

\* C3 as stated: a head whose types are ("Normal", "Flying") gets type1
\* "Flying", every other head its first type, and ("Normal", "Flying") with
\* ("Water", "Ice") gives ("Flying", "Ice").
C3_Original ==
    TypesCall =>
        /\ ret.value.type1 = IF TypesOf(call.head) = <<"Normal", "Flying">>
                             THEN "Flying" ELSE HeadFirst
        /\ (TypesOf(call.head) = <<"Normal", "Flying">>
            /\ TypesOf(call.body) = <<"Water", "Ice">>
                => ret.value.types = <<"Flying", "Ice">>)

\* C3 amended: the promotion is of the upper-case tags the type table uses,
\* compared case-sensitively. A head whose types are ("NORMAL", "FLYING")
\* gets type1 "FLYING"; every other head, ("Normal", "Flying") included,
\* gets its first type; ("NORMAL", "FLYING") with ("WATER", "ICE") gives
\* ("FLYING", "ICE"), and ("Normal", "Flying") with ("Water", "Ice") gives
\* ("Normal", "Ice").
C3_PromotionOfUpperCaseTags ==
    TypesCall =>
        /\ ret.value.type1 = IF TypesOf(call.head) = <<"NORMAL", "FLYING">>
                             THEN "FLYING" ELSE HeadFirst
        /\ (TypesOf(call.head) = <<"NORMAL", "FLYING">>
            /\ TypesOf(call.body) = <<"WATER", "ICE">>
                => ret.value.types = <<"FLYING", "ICE">>)
        /\ (TypesOf(call.head) = <<"Normal", "Flying">>
            /\ TypesOf(call.body) = <<"Water", "Ice">>
                => ret.value.types = <<"Normal", "Ice">>)

C3_Witness ==
    /\ TypesCall
    /\ TypesOf(call.head) = <<"NORMAL", "FLYING">>
    /\ TypesOf(call.body) = <<"WATER", "ICE">>
    /\ ret.value.types = <<"FLYING", "ICE">>

\* C4: type2 is the body's first type when the body's second type equals
\* type1, and the body's second type (absent for a mono-typed body)
\* otherwise.
C4_Type2Rule ==
    TypesCall =>
        LET b      == TypesOf(call.body)
            first  == IF Len(b) >= 1 THEN b[1] ELSE undefined
            second == IF Len(b) >= 2 THEN b[2] ELSE undefined
        IN  /\ second = ret.value.type1 => ret.value.type2 = first
            /\ second # ret.value.type1 => ret.value.type2 = second

C4_Witness ==
    /\ TypesCall
    /\ TypesOf(call.head) = <<"NORMAL", "FLYING">>
    /\ TypesOf(call.body) = <<"WATER", "FLYING">>
    /\ ret.value.type2 = "WATER"

\* C5: for a head and a body with 1 or 2 types each, calculateTypes returns
\* 1 or 2 entries, none absent or empty, no two equal, type1 first; a
\* mono-typed Fire head with a mono-typed Fire body gives exactly ("Fire").
C5_TypesShape ==
    (TypesCall /\ Len(TypesOf(call.head)) \in {1, 2}
               /\ Len(TypesOf(call.body)) \in {1, 2}) =>
        LET t == ret.value.types
        IN  /\ Len(t) \in {1, 2}
            /\ \A i \in DOMAIN t : t[i] # undefined /\ t[i] # ""
            /\ \A i, j \in DOMAIN t : i # j => t[i] # t[j]
            /\ t[1] = ret.value.type1
            /\ (TypesOf(call.head) = <<"Fire">> /\ TypesOf(call.body) = <<"Fire">>
                    => t = <<"Fire">>)

C5_Witness ==
    /\ TypesCall
    /\ TypesOf(call.head) = <<"Fire">>
    /\ TypesOf(call.body) = <<"Fire">>
    /\ ret.value.types = <<"Fire">>

\* the call in progress is calculateName on two records that carry a name
NamedCall ==
    /\ call.op = "calculateName"
    /\ ~IsNull(call.head.data) /\ "fullName" \in DOMAIN call.head.data
    /\ ~IsNull(call.body.data) /\ "fullName" \in DOMAIN call.body.data

\* the split of a side: the table's pair for the remapped id, (fullName, "")
\* for an id the table lacks
SplitOf(side) ==
    LET natDex == IF side.index \in DOMAIN NAT_DEX_MAPPING
                  THEN NAT_DEX_MAPPING[side.index] ELSE side.index
    IN  IF natDex \in DOMAIN SPLIT_NAMES THEN SPLIT_NAMES[natDex]
        ELSE <<side.data.fullName, << >> >>

\* the suffix a body contributes: its split's suffix, or the prefix when the
\* suffix is empty
SuffixOf(side) ==
    IF SplitOf(side)[2] # << >> THEN SplitOf(side)[2] ELSE SplitOf(side)[1]

\* C7: calculateName returns the remapped head's prefix followed by the
\* remapped body's suffix (the body's prefix when the suffix is empty); the
\* prefix loses exactly its last character when both parts are non-empty and
\* that character equals, case-sensitively, the first of the suffix, and
\* loses nothing otherwise.
C7_PrefixSuffixElision ==
    NamedCall =>
        LET prefix == SplitOf(call.head)[1]
            suffix == SuffixOf(call.body)
            drops  == /\ prefix # << >> /\ suffix # << >>
                      /\ prefix[Len(prefix)] = suffix[1]
        IN  /\ ~ret.threw
            /\ drops => ret.value = SubSeq(prefix, 1, Len(prefix) - 1) \o suffix
            /\ ~drops => ret.value = prefix \o suffix

C7_Witness ==
    /\ NamedCall
    /\ call.head.index = 4 /\ call.body.index = 3
    /\ ret = Return(<<"C", "h", "a", "r", "a">>)

\* C8 as stated: calculateName returns a string without throwing, for every
\* head id and body id, whether or not the tables have an entry for them.
C8_NameNeverFails ==
    call.op = "calculateName" => ~ret.threw

(***************************************************************************)
(* Claims about the engine, checked under Spec.                            *)
(***************************************************************************)
\* a fusion was generated: the call in progress is generateFusion and it
\* returned a result
Generated == call.op = "generateFusion" /\ ~ret.threw

\* the names of the result's types, in lower case
TypeNames(r) == [i \in DOMAIN r.types |-> LowerTag[r.types[i].name]]

Bulbamander == <<"B", "u", "l", "b", "a", "m", "a", "n", "d", "e", "r">>

\* C6 as stated: head Bulbasaur (id 1) with body Charmander (id 4) gives the
\* name "Bulbamander" and the types (Grass, Fire); a mono-typed body whose
\* type differs from the fusion's first type contributes it as the second.
C6_MonoTypedBodyContributes ==
    Generated =>
        LET r    == ret.value
            body == pokemonById[r.rightPkmnIndex]
        IN  /\ (r.leftPkmnIndex = 1 /\ r.rightPkmnIndex = 4
                    => /\ r.fusionName = Bulbamander
                       /\ TypeNames(r) = <<"grass", "fire">>)
            /\ (Len(body.types) = 1 /\ body.types[1] # r.types[1].name
                    => Len(r.types) = 2 /\ r.types[2].name = body.types[1])

\* the phrase of a record's category: the category without its trailing
\* " Pokémon"
PhraseOf(data) == SubSeq(data.category, 1, Len(data.category) - 2)

\* the category with the phrases of `first` and `second` in this order
CategoryOf(first, second) ==
    PhraseOf(first) \o <<" ">> \o PhraseOf(second) \o <<" ", "Pokémon">>

\* the record of a name a request supplies
SuppliedRecord(name) == pokemonData[toLowerCase(name)]

\* a request for the Pokedex data of two supplied roster names returned
PokedexReturned ==
    /\ call.op = "getFusionPokedex" /\ ~ret.threw
    /\ call.options.headPokemon # << >>
    /\ toLowerCase(call.options.headPokemon) \in DOMAIN pokemonData
    /\ call.options.bodyPokemon # << >>
    /\ toLowerCase(call.options.bodyPokemon) \in DOMAIN pokemonData

\* C9 as stated: the category of generateFusion and of getFusionPokedex is
\* the head's phrase, one space, the body's phrase, and " Pokémon".
C9_HeadPhraseFirst ==
    /\ Generated =>
           ret.value.category
             = CategoryOf(pokemonById[ret.value.leftPkmnIndex],
                          pokemonById[ret.value.rightPkmnIndex])
    /\ PokedexReturned =>
           ret.value.category
             = CategoryOf(SuppliedRecord(call.options.headPokemon),
                          SuppliedRecord(call.options.bodyPokemon))

\* text with every POKENAME replaced by name
RECURSIVE Substituted(_, _)
Substituted(text, name) ==
    IF text = << >> THEN << >>
    ELSE (IF Head(text) = "POKENAME" THEN name ELSE <<Head(text)>>)
         \o Substituted(Tail(text), name)

\* the entries the loaded store holds for the pair of a generated fusion
StoredFor(r) ==
    LET key == FusionKey(r.leftPkmnIndex, r.rightPkmnIndex)
    IN  IF isPokedexLoaded /\ key \in DOMAIN customPokedexEntries
        THEN customPokedexEntries[key]
        ELSE << >>

AutoSpliced == <<"Auto-spliced Pokédex Entry">>

\* C10: when the loaded store holds an entry under "headId.bodyId", the
\* Pokedex entry of the fusion is one of the entries stored under that key,
\* with every POKENAME replaced by the fusion name, and carries that entry's
\* author; the auto-spliced text is returned only when the store holds no
\* entry for the pair.
C10_CustomEntryFirst ==
    Generated =>
        LET r      == ret.value
            stored == StoredFor(r)
        IN  /\ stored # << >> =>
                 \E i \in DOMAIN stored :
                     /\ r.pokedexEntry = Substituted(stored[i].entry, r.fusionName)
                     /\ r.pokedexAuthor = stored[i].author
            /\ r.pokedexAuthor = AutoSpliced => stored = << >>

C10_Witness ==
    /\ Generated
    /\ ret.value.leftPkmnIndex = 1 /\ ret.value.rightPkmnIndex = 4
    /\ ret.value.pokedexAuthor = <<"alice">>
    /\ ret.value.pokedexEntry
         = Bulbamander \o <<" ", "basks by the fire", ".", " ">>
           \o Bulbamander \o <<" ", "glows">>

\* the auto-spliced description that opens with the first segment of
\* `opening`'s text and closes with the second segment of `closing`'s (its
\* first when the second is empty), each record's name replaced by `name`
SplicedText(opening, closing, name) ==
    splitAndCombineText(
        ReplaceAll(opening.pokedexEntry, opening.fullName, name),
        ReplaceAll(closing.pokedexEntry, closing.fullName, name),
        ".")

\* C11 as stated: when the store holds no entry for the pair, the
\* description of generateFusion opens with the first segment of the body
\* record's text and closes with the second segment of the head record's
\* text, each record's name replaced by the fusion name, and the author is
\* the auto-spliced literal.
C11_BodyOpensHeadCloses ==
    (Generated /\ StoredFor(ret.value) = << >>) =>
        LET r == ret.value
        IN  /\ r.pokedexAuthor = AutoSpliced
            /\ r.pokedexEntry = SplicedText(pokemonById[r.rightPkmnIndex],
                                            pokemonById[r.leftPkmnIndex],
                                            r.fusionName)

\* the floor of the mean of the magnitudes of the call's two strings
MeanOfCall == (call.head.tenths + call.body.tenths) \div 20

\* C12: calculateHeight returns floor((h + b) / 2) followed by " cm" and
\* calculateWeight returns floor((h + b) / 2) followed by " kg", h and b being
\* the magnitudes the head's and the body's strings start with, 0 for an
\* absent string or one without a number; "150 cm" and "61 cm" give "105 cm".
C12_FloorOfMean ==
    /\ call.op = "calculateHeight" =>
           ret = Return(NatToDigits(MeanOfCall) \o <<" ", "c", "m">>)
    /\ call.op = "calculateWeight" =>
           ret = Return(NatToDigits(MeanOfCall) \o <<" ", "k", "g">>)
    /\ (call.op = "calculateHeight" /\ call.head.tenths = 1500
                                    /\ call.body.tenths = 610)
           => ret.value = <<"1", "0", "5", " ", "c", "m">>

C12_Witness ==
    /\ call.op = "calculateHeight"
    /\ call.head.text = <<"1", "5", "0", " ", "c", "m">>
    /\ call.body.text = <<"6", "1", " ", "c", "m">>
    /\ ret.value = <<"1", "0", "5", " ", "c", "m">>

\* a name was supplied for a side and matches no roster entry
Unknown(name) ==
    name # << >> /\ toLowerCase(name) \notin DOMAIN pokemonData

\* the call in progress is an engine request
EngineCall ==
    call.op \in {"generateFusion", "getFusionNames", "getFusionTypes",
                 "getFusionStats", "getFusionPokedex"}

\* C13 as stated: with the roster loaded, resolution fails with an unknown-creature error whenever a
\* supplied head or body name matches no roster entry, and a side whose name
\* was supplied is never drawn at random.
C13_UnknownNameFails ==
    /\ (EngineCall /\ isInitialized
                   /\ (Unknown(call.options.headPokemon)
                       \/ Unknown(call.options.bodyPokemon)))
           => ret.threw /\ ret.error = "UnknownCreatureError"
    /\ (Generated /\ call.options.headPokemon # << >>)
           => ret.value.leftPokemonName = call.options.headPokemon
    /\ (Generated /\ call.options.bodyPokemon # << >>)
           => ret.value.rightPokemonName = call.options.bodyPokemon

(***************************************************************************)
(* Claims about the HTTP boundary, checked under SpecHttp.                 *)
(***************************************************************************)
\* the call in progress is a request to a fusion route
FusionRequest == call.op = "handleFusionRequest"

\* a query value that matches no roster name, whatever its case
MatchesNone(value) ==
    /\ value # << >>
    /\ \A i \in DOMAIN pokemonNames :
           toLowerCase(pokemonNames[i]) # toLowerCase(value)

\* the text of the 400 response for a side and its value
InvalidText(side, value) ==
    <<"Invalid ", side, " Pokemon: ">> \o value
        \o <<". Use GET /api/pokemon to see available Pokemon.">>

\* C14: a request whose head or body value matches no roster name gets a 400
\* response that echoes the value and points to the roster listing, and the
\* service method is not invoked; the head value is checked first, so when
\* both are invalid the response is about the head.
C14_InvalidNameIs400 ==
    FusionRequest =>
        LET head == call.query.head
            body == call.query.body
            json == ret.value.json
        IN  /\ MatchesNone(head) =>
                 /\ ret.value.status = 400 /\ ~call.invoked
                 /\ json = [success |-> FALSE, error |-> InvalidText("head", head)]
            /\ (~MatchesNone(head) /\ MatchesNone(body)) =>
                 /\ ret.value.status = 400 /\ ~call.invoked
                 /\ json = [success |-> FALSE, error |-> InvalidText("body", body)]

C14_Witness ==
    /\ FusionRequest /\ isInitialized
    /\ MatchesNone(call.query.head) /\ MatchesNone(call.query.body)
    /\ ret.value.status = 400 /\ ~call.invoked
    /\ ret.value.json.error = InvalidText("head", call.query.head)

\* the generic text of the 500 response of the call in progress
GenericText ==
    IF call.op = "errorHandler" THEN <<"Internal server error">>
    ELSE <<"Failed to get ", LogContext[call.serviceMethod]>>

\* the call in progress answered an internal fault with a 500 response
Faulted ==
    /\ call.op \in {"handleFusionRequest", "errorHandler"}
    /\ ret.value.status = 500

\* C15: in production every 500 response for an internal fault is the same
\* whatever the error message is, the generic error text without a details
\* field; the details field is attached in the other environments only.
C15_NoDetailsInProduction ==
    Faulted =>
        /\ call.environment = "production" =>
               ret.value.json = [success |-> FALSE, error |-> GenericText]
        /\ call.environment # "production" =>
               /\ DOMAIN ret.value.json = {"success", "error", "details"}
               /\ ret.value.json.error = GenericText

C15_Witness ==
    /\ Faulted /\ call.op = "handleFusionRequest"
    /\ call.environment = "production"
    /\ ret.value.json = [success |-> FALSE,
                         error |-> <<"Failed to get ", "complete fusion data">>]

(***************************************************************************)
(* Claims about the stores, checked under Spec.                            *)
(***************************************************************************)
\* a key of the form headId.bodyId followed by one letter of either case
VariantKey(key) ==
    \E i \in 1 .. 4, j \in 1 .. 4 :
        /\ Len(key) = i + j + 2
        /\ \A k \in 1 .. i : IsDigit(key[k])
        /\ key[i + 1] = "."
        /\ \A k \in (i + 2) .. (i + j + 1) : IsDigit(key[k])
        /\ IsLetter(key[i + j + 2])

\* the sprite of a record without its extension
SpriteKey(record) == SubSeq(record.sprite, 1, Len(record.sprite) - 1)

\* the texts of the variant records of the sources
VariantTexts ==
    UNION {{source[i].entry : i \in {k \in DOMAIN source :
                                        /\ "entry" \in DOMAIN source[k]
                                        /\ VariantKey(SpriteKey(source[k]))}} :
              source \in DexSources}

\* C16: after FusionService.initialize no key of the custom entry index
\* matches the variant pattern and no variant record's text is stored under
\* any key; a source with "12.7.png" and variants of it leaves exactly one
\* entry under "12.7", the non-variant one.
C16_VariantsFiltered ==
    LET twelveSeven == <<"1", "2", ".", "7">>
    IN  /\ \A key \in DOMAIN customPokedexEntries :
               /\ ~VariantKey(key)
               /\ \A i \in DOMAIN customPokedexEntries[key] :
                      customPokedexEntries[key][i].entry \notin VariantTexts
        /\ twelveSeven \in DOMAIN customPokedexEntries =>
               customPokedexEntries[twelveSeven]
                 = << [entry  |-> <<"POKENAME", " ", "hides in tall grass">>,
                       author |-> <<"frank">>] >>

C16_Witness ==
    /\ isPokedexLoaded
    /\ call.op = "FusionService.initialize"
    /\ <<"1", "2", ".", "7">> \in DOMAIN customPokedexEntries
    /\ Len(customPokedexEntries[<<"1", "2", ".", "7">>]) = 1

(***************************************************************************)
(* Claims about the image routes, checked under SpecImage.                 *)
(***************************************************************************)
\* an image request was resolved with the index initialized
Resolved ==
    call.op = "getFusionImage" /\ call.resolved /\ imageIsInitialized

\* the ids of the pair the request in progress resolved
HeadIdOf == parseInt(call.params.headId).n

BodyIdOf == parseInt(call.params.bodyId).n

\* the curated set has the pair of the request
Curated ==
    NatToDigits(HeadIdOf) \o <<".">> \o NatToDigits(BodyIdOf) \in customSprites

\* the generated index has the pair of the request
Generatable ==
    HeadIdOf \in DOMAIN autogenSprites /\ BodyIdOf \in autogenSprites[HeadIdOf]

\* C17: with the image index initialized, the pair resolves to the curated
\* file and attribution whenever the curated set has its key, even if the
\* generated index has the pair too; to the generated file only when the
\* curated set lacks the key and the generated index has the body id under
\* the head id; to the missing placeholder only when neither has the pair.
C17_CuratedFirst ==
    Resolved =>
        LET key == NatToDigits(HeadIdOf) \o <<".">> \o NatToDigits(BodyIdOf)
        IN  /\ Curated =>
                 /\ ret.value.imageSource = "custom"
                 /\ ret.value.file
                      = <<"__dirname/..", "/data/infinite-fusion-graphics/custom/">>
                        \o key \o <<".png">>
            /\ (~Curated /\ Generatable) =>
                 /\ ret.value.imageSource = "japeal"
                 /\ ret.value.file
                      = <<"__dirname/..", "/data/infinite-fusion-graphics/autogen/">>
                        \o NatToDigits(HeadIdOf) \o <<"/">> \o key \o <<".png">>
            /\ (~Curated /\ ~Generatable) =>
                 /\ ret.value.imageSource = "Missing sprite."
                 /\ ret.value.file = <<"__dirname/..", "/assets/sprites/null.png">>

C17_Witness ==
    /\ Resolved /\ Curated /\ Generatable
    /\ call.params = [headId |-> <<"1">>, bodyId |-> <<"4">>]
    /\ ret.value.imageSource = "custom"

\* a parameter that is purely the digits of a positive integer
PositiveInteger(s) ==
    /\ s # << >>
    /\ \A i \in DOMAIN s : IsDigit(s[i])
    /\ \E i \in DOMAIN s : s[i] # "0"

\* C18 as stated: a head or body id that is not a positive integer (zero,
\* negative, non-numeric, or not purely an integer) is rejected with the
\* invalid-parameter response and generateFusionImagePath is not called for
\* it; only positive integers are accepted.
C18_OnlyPositiveIntegers ==
    call.op = "getFusionImage" =>
        IF PositiveInteger(call.params.headId)
           /\ PositiveInteger(call.params.bodyId)
        THEN ret.value.status = 200 /\ call.resolved
        ELSE ret.value.status = 400 /\ ~call.resolved

\* s in upper case
UpperOf(s) ==
    [i \in DOMAIN s |->
        IF \E u \in DOMAIN UpperToLower : UpperToLower[u] = s[i]
        THEN CHOOSE u \in DOMAIN UpperToLower : UpperToLower[u] = s[i]
        ELSE s[i]]

\* casings of a name
Casings(name) == {name, toLowerCase(name), UpperOf(name)}

\* the records the roster store holds
LoadedRecords == {pokemonData[k] : k \in DOMAIN pokemonData}

\* C19 as stated: after a successful roster load every loaded record r is
\* addressable both ways: getPokemonById(r.id) returns r, and for every
\* casing of r.fullName isValidPokemon is true, normalizePokemonName returns
\* r.fullName and getPokemonIndex returns r.id; every name of the name list
\* resolves back to a record.
C19_AddressableBothWays ==
    isInitialized =>
        /\ \A r \in LoadedRecords :
               /\ getPokemonById(r.id) = r
               /\ \A name \in Casings(r.fullName) :
                      /\ isValidPokemon(name)
                      /\ normalizePokemonName(name) = r.fullName
                      /\ getPokemonIndex(name) = r.id
        /\ \A i \in DOMAIN pokemonNames :
               /\ isValidPokemon(pokemonNames[i])
               /\ getPokemonById(getPokemonIndex(pokemonNames[i])).fullName
                    = pokemonNames[i]

\* C20 as stated: a name that cannot be resolved fails explicitly, no lookup
\* of the resolution path standing in id 0 for it, and no fusion result has
\* leftPkmnIndex or rightPkmnIndex equal to 0.
C20_NoSilentIdZero ==
    /\ (call.op = "getPokemonIndex"
        /\ toLowerCase(call.name) \notin DOMAIN pokemonData)
           => ret.threw
    /\ Generated =>
           ret.value.leftPkmnIndex # 0 /\ ret.value.rightPkmnIndex # 0

(***************************************************************************)
(* Claims about loading, error normalisation and projections.              *)
(***************************************************************************)
\* C21 as stated: a missing or malformed roster source or custom-entry source
\* is fatal: the initialize call that could not load its data throws, and no
\* engine call returns a result while either store is unloaded.
C21_LoadFailureIsFatal ==
    /\ (call.op = "PokemonService.initialize" /\ ~isInitialized) => ret.threw
    /\ (call.op = "FusionService.initialize" /\ ~isPokedexLoaded) => ret.threw
    /\ (EngineCall /\ ~ret.threw) => (isInitialized /\ isPokedexLoaded)

\* C22 as stated: an engine entry point whose sub-computation throws ends
\* with the one normalized fusion-computation error, never with the raw
\* exception of the lookup or property read.
C22_OneNormalizedError ==
    (EngineCall /\ ret.threw) => ret.error = "Failed to generate fusion"

\* both names of the call in progress were supplied and are in the roster
BothSupplied ==
    /\ isValidPokemon(call.options.headPokemon)
    /\ isValidPokemon(call.options.bodyPokemon)

\* every result of the full pipeline for the same options agrees with the
\* returned projection on the given fields
Projected(fields) ==
    \A g \in generateFusion(call.options) :
        ~g.threw /\ \A f \in fields : g.value[f] = ret.value[f]

\* the custom entries stored for the pair of the call in progress
CustomOfCall ==
    getCustomPokedexEntry(getPokemonIndex(call.options.headPokemon),
                          getPokemonIndex(call.options.bodyPokemon))

\* C23: for valid supplied head and body names each narrow entry point
\* returns what generateFusion returns for the same names: the names and id,
\* the types, the stats, the category, height and weight, and the Pokedex
\* entry and author when the pair has at most one custom entry.
C23_NarrowAreProjections ==
    /\ (call.op = "getFusionNames" /\ BothSupplied)
           => /\ ~ret.threw
              /\ Projected({"fusionName", "fusionId", "leftPokemonName",
                            "rightPokemonName"})
    /\ (call.op = "getFusionTypes" /\ BothSupplied)
           => ~ret.threw /\ Projected({"types"})
    /\ (call.op = "getFusionStats" /\ BothSupplied)
           => ~ret.threw /\ Projected({"stats"})
    /\ (call.op = "getFusionPokedex" /\ BothSupplied)
           => /\ ~ret.threw
              /\ Projected({"category", "height", "weight"})
              /\ Cardinality(CustomOfCall) <= 1
                     => Projected({"pokedexEntry", "pokedexAuthor"})

\* a names request for two different creatures, and a Pokedex request for a
\* pair with exactly one custom entry, have returned
C23_Witness ==
    \/ /\ call.op = "getFusionNames" /\ BothSupplied /\ ~ret.threw
       /\ getPokemonIndex(call.options.headPokemon)
              # getPokemonIndex(call.options.bodyPokemon)
    \/ /\ call.op = "getFusionPokedex" /\ BothSupplied /\ ~ret.threw
       /\ Cardinality(CustomOfCall) = 1

\* the operations of the request path
RequestOps ==
    {"generateFusion", "getFusionNames", "getFusionTypes", "getFusionStats",
     "getFusionPokedex", "getFusionImage"}

\* C24: no request-path operation changes the roster maps, the names list,
\* the custom entry index, the image indexes or the initialized flags,
\* whether it succeeds or fails.
C24_RequestsLeaveStores ==
    [][call'.op \in RequestOps => UNCHANGED Stores]_vars

\* with every store loaded, a request that names an unknown creature has
\* been made
C24_Witness ==
    /\ call.op = "generateFusion"
    /\ Unknown(call.options.headPokemon)
    /\ isInitialized /\ isPokedexLoaded /\ imageIsInitialized
    /\ customPokedexEntries # EmptyMap /\ customSprites # {}

\* the fields of a fusion result that may vary between two calls
VaryingFields == {"pokedexEntry", "pokedexAuthor", "timestamp"}

\* the records the call in progress resolves its supplied names to
HeadOfCall == getPokemonById(getPokemonIndex(call.options.headPokemon))
BodyOfCall == getPokemonById(getPokemonIndex(call.options.bodyPokemon))

InWindow(ip) ==
    ip \in DOMAIN requestCounts /\ now <= requestCounts[ip].resetTime

\* C26: per client address, a request outside a window is passed on and
\* starts a window of 60 s with count 1; within a window requests are passed
\* on until 10 were counted and every further one is answered 429 and not
\* passed on; the counter of another address never changes.
C26_FixedWindowPerIp ==
    [][call'.op = "rateLimit" =>
        LET ip == call'.ip
        IN  /\ DOMAIN requestCounts' = DOMAIN requestCounts \cup {ip}
            /\ \A other \in DOMAIN requestCounts \ {ip} :
                   requestCounts'[other] = requestCounts[other]
            /\ requestCounts'[ip].count <= 10
            /\ ~InWindow(ip) =>
                   /\ call'.next
                   /\ requestCounts'[ip] =
                          [count |-> 1, resetTime |-> now + 60000]
            /\ (InWindow(ip) /\ requestCounts[ip].count < 10) =>
                   /\ call'.next
                   /\ requestCounts'[ip] =
                          [requestCounts[ip] EXCEPT !.count = @ + 1]
            /\ (InWindow(ip) /\ requestCounts[ip].count >= 10) =>
                   /\ ~call'.next
                   /\ ret'.value.status = 429
                   /\ requestCounts' = requestCounts]_vars

\* a request was refused after a window had already been reset once, while
\* the other client's counter kept its own value
C26_Witness ==
    /\ call.op = "rateLimit" /\ ~call.next
    /\ ret.value.status = 429
    /\ requestCounts[call.ip].resetTime > 60000
    /\ \E other \in DOMAIN requestCounts \ {call.ip} :
           requestCounts[other].count \in 1..9

(***************************************************************************)
(* Claims about the loading of the roster, checked under SpecLoad.         *)
(***************************************************************************)
\* C27: while isInitialized is false (before a load, while one is awaited,
\* after one failed part-way or after refreshCache cleared the maps) every
\* lookup returns its empty result and no record data.
C27_NoPartialRosterObservable ==
    (call.op = "lookup" /\ ~isInitialized) =>
        /\ ~ret.value.isValidPokemon
        /\ ret.value.normalizePokemonName = << >>
        /\ ret.value.getRandomPokemonName = { << >> }
        /\ ret.value.getPokemonByName = null
        /\ ret.value.getPokemonById = null
        /\ ret.value.getPokemonIndex = 0
        /\ ret.value.getAllPokemonNames = << >>

\* a lookup of a name and an id that a failed load left in the maps
C27_Witness ==
    /\ call.op = "lookup" /\ ~isInitialized
    /\ toLowerCase(call.name) \in DOMAIN pokemonData
    /\ call.id \in DOMAIN pokemonById
    /\ pokemonNames # << >>

\* no full name occurs twice in the names list
NamesOnce ==
    \A i, j \in DOMAIN pokemonNames :
        i # j => pokemonNames[i] # pokemonNames[j]

\* C28 as stated: whatever the sequence or interleaving of initialize calls,
\* once the roster is loaded the names list holds each fullName exactly once
\* and getAllPokemonNames has as many entries as the roster has records, and
\* a call of initialize made after loading completed changes nothing.
C28_LoadedOnce ==
    [][/\ isInitialized' =>
              /\ NamesOnce'
              /\ Len(getAllPokemonNames') = Cardinality(DOMAIN pokemonData')
       /\ (call'.op = "initialize" /\ isInitialized) =>
              UNCHANGED <<Stores, pendingLoads>>]_vars

\* the roster in use is one of the sources, so that a name is in the roster
\* before and after a refresh exactly when every source holds it
InEveryRoster(name) ==
    \A source \in RosterSources :
        \E i \in DOMAIN source : source[i].data.fullName = name

\* a call of refreshCache that found the roster loaded has not finished
RefreshRunning ==
    \E i \in DOMAIN pendingLoads :
        pendingLoads[i].via = "refreshCache" /\ pendingLoads[i].hadRoster

\* C29 as stated: a fusion request that arrives while refreshCache runs, with
\* names that are in the roster before and after the refresh, is answered
\* with the fusion and not rejected or failed; and when the refresh fails the
\* previously loaded roster is still available.
C29_RefreshDoesNotDisturb ==
    /\ (/\ call.op = "handleFusionRequest"
        /\ RefreshRunning
        /\ InEveryRoster(call.query.head)
        /\ InEveryRoster(call.query.body))
           => ret.value.status = 200
    /\ (/\ call.op = "initialize.resume"
        /\ call.via = "refreshCache" /\ call.hadRoster
        /\ ret.threw)
           => isInitialized

(***************************************************************************)
(* Bounds of the stat synthesis, checked under SpecCalc.                   *)
(***************************************************************************)
Smaller(a, b) == IF a <= b THEN a ELSE b

Larger(a, b) == IF a >= b THEN a ELSE b

\* the stat values the records of the calls carry
StatValues == 0 .. (3 * MaxStat + 2)

\* C30: every fused stat lies between the smaller parent value minus one and
\* the larger parent value, TOTAL does not exceed the sum of the six larger
\* values, and fusing a record with itself raises no stat.
C30_FusedWithinParents ==
    call.op = "calculateBaseStats" =>
        LET h == StatsOf(call.head)
            b == StatsOf(call.body)
            r == ret.value
        IN  /\ \A k \in DOMAIN h :
                   /\ Smaller(h[k], b[k]) - 1 <= r[k]
                   /\ r[k] <= Larger(h[k], b[k])
            /\ r.TOTAL <= SumValues([k \in DOMAIN h |-> Larger(h[k], b[k])])
            /\ call.head = call.body => \A k \in DOMAIN h : r[k] <= h[k]
            /\ \A x \in StatValues, y \in StatValues :
                   /\ Smaller(x, y) - 1 <= calculateFusedStats(x, y)
                   /\ calculateFusedStats(x, y) <= Larger(x, y)

\* a record fused with itself lost one point of HP and kept its DEFENSE
C30_Witness ==
    /\ StatsCall
    /\ call.head = call.body
    /\ ret.value.HP = call.head.hp - 1
    /\ ret.value.DEFENSE = call.head.defense
    /\ call.head.defense > 0

====
